---- MODULE Spec2Model ----
(***************************************************************************)
(* A model of the bubbleterm headless terminal emulator                    *)
(* (src/emulator/ansi.go, src/emulator/types.go): the screen (grid) with   *)
(* its cursor, margins and pen, the control-stream parser run by the PTY   *)
(* read loop, and the Emulator shell with its RWMutex, PTY pair, host      *)
(* operations, Close and the exit monitor.                                  *)
(*                                                                         *)
(* Runes are code points (integers).  The UTF-8 decoding done by           *)
(* bufio.Reader.ReadRune sits below the model: the PTY queues hold decoded *)
(* code points.  A Go runtime panic is the field "fault" of the value an   *)
(* operator returns; it unwinds to the action, which records it in the     *)
(* variable panicked, and a panicked process takes no further step.        *)
(***************************************************************************)
EXTENDS Integers, Sequences, FiniteSets, TLC

\* ------------------------------------------------------------------ bounds

\* capacity, in runes, of the kernel queue from the child to the PTY master
PtyOutCap == 2
\* capacity, in writes, of the kernel queue from the PTY master to the child
PtyInCap == 1
\* host operations issued by one host thread
MaxOps == 1
\* chunks (printable runs, controls, escape sequences) the child emits
MaxChunks == 3
\* the calls each host goroutine makes on the command (StartCommand,
\* SetOnExit, IsProcessExited)
MaxProcOps == 2
\* the sequences a stream of the alternate-screen runs is made of
MaxAltChunks == 3

\* ------------------------------------------------------------ small helpers

Min(a, b) == IF a < b THEN a ELSE b

clamp(v, low, high) ==
  LET v1 == IF v < low THEN low ELSE v
  IN  IF v1 > high THEN high ELSE v1

\* runes used by the parser
BEL == 7
BS == 8
LF == 10
FF == 12
CR == 13
ESC == 27
SP == 32
DEL == 127
ST == 156

\* byte values of the ASCII characters the parser compares against
Ch(c) ==
  CASE c = "(" -> 40 [] c = ")" -> 41 [] c = "*" -> 42 [] c = "+" -> 43
    [] c = "-" -> 45 [] c = "<" -> 60
    [] c = "0" -> 48 [] c = "1" -> 49 [] c = "2" -> 50 [] c = "3" -> 51
    [] c = "4" -> 52 [] c = "5" -> 53 [] c = "6" -> 54 [] c = "7" -> 55
    [] c = "8" -> 56 [] c = "9" -> 57 [] c = ";" -> 59 [] c = "=" -> 61
    [] c = ">" -> 62 [] c = "?" -> 63
    [] c = "A" -> 65 [] c = "B" -> 66 [] c = "C" -> 67 [] c = "D" -> 68
    [] c = "G" -> 71 [] c = "H" -> 72 [] c = "J" -> 74 [] c = "K" -> 75
    [] c = "L" -> 76 [] c = "M" -> 77 [] c = "P" -> 80 [] c = "S" -> 83
    [] c = "T" -> 84 [] c = "X" -> 88 [] c = "[" -> 91 [] c = "\\" -> 92
    [] c = "]" -> 93 [] c = "c" -> 99 [] c = "d" -> 100 [] c = "f" -> 102
    [] c = "h" -> 104 [] c = "l" -> 108 [] c = "m" -> 109 [] c = "n" -> 110
    [] c = "r" -> 114 [] c = "Z" -> 90

\* --------------------------------------------------------------- color model

ModeBold == "bold"
ModeDim == "dim"
ModeItalic == "italic"
ModeUnderline == "underline"
ModeReverse == "reverse"

\* ColorModes[p-1] for the SGR parameters 1..8
ColorModes(i) ==
  CASE i = 0 -> ModeBold [] i = 1 -> ModeDim [] i = 2 -> ModeItalic
    [] i = 3 -> ModeUnderline [] i = 4 -> "blink" [] i = 5 -> "blink2"
    [] i = 6 -> ModeReverse [] i = 7 -> "hidden"

\* a Color is a color value with a set of attribute flags
Color(v) == [v |-> <<v>>, m |-> {}]
Colors8(i) == Color(i)
ColBlack == Colors8(0)
ColWhite == Colors8(7)
SetColor(c, d) == [c EXCEPT !.v = d.v]
SetColorRGB(c, r, g, b) == [c EXCEPT !.v = <<r, g, b>>]
SetMode(c, mode) == [c EXCEPT !.m = @ \cup {mode}]
ResetMode(c, mode) == [c EXCEPT !.m = @ \ {mode}]

\* -------------------------------------------------------------------- screen

Pos(x, y) == [X |-> x, Y |-> y]
Region(x, y, x2, y2) == [X |-> x, Y |-> y, X2 |-> x2, Y2 |-> y2]

\* a row of w cells holding v
Row(w, v) == [x \in 0 .. w - 1 |-> v]

\* a fault is kept once raised: the rest of the call is not run
Faulted(s) == s.fault # ""
Fault(s, what) == [s EXCEPT !.fault = what]

setColors(s, front, back) ==
  [s EXCEPT !.frontColor = front, !.backColor = back]

clampRegion(s, r) ==
  Region(clamp(r.X, 0, s.size.X), clamp(r.Y, 0, s.size.Y),
         clamp(r.X2, 0, s.size.X), clamp(r.Y2, 0, s.size.Y))

\* rawWriteColors is the copy of the pen (frontColorBuf, backColorBuf hold
\* the pen in every cell: setColors and setSize fill them) into row y.
rawWriteRunes(s, x, y, b) ==
  IF Faulted(s) THEN s
  ELSE IF y >= s.size.Y \/ x + Len(b) > s.size.X THEN s
  ELSE IF y < 0 \/ x < 0 THEN Fault(s, "index out of range")
  ELSE [s EXCEPT
         !.chars[y] = [c \in 0 .. s.size.X - 1 |->
                         IF c >= x /\ c < x + Len(b) THEN b[c - x + 1] ELSE @[c]],
         !.frontColors[y] = [c \in 0 .. s.size.X - 1 |->
                         IF c >= x /\ c < x + Len(b) THEN s.frontColor ELSE @[c]],
         !.backColors[y] = [c \in 0 .. s.size.X - 1 |->
                         IF c >= x /\ c < x + Len(b) THEN s.backColor ELSE @[c]]]

RECURSIVE EraseRows(_, _, _, _)
EraseRows(s, r, i, blank) ==
  IF i >= r.Y2 THEN s
  ELSE EraseRows(rawWriteRunes(s, r.X, i, blank), r, i + 1, blank)

\* eraseRegion after "r = s.clampRegion(r)"
EraseClamped(s, r) ==
  IF Faulted(s) THEN s
  ELSE IF r.X2 - r.X < 0 THEN Fault(s, "makeslice: len out of range")
  ELSE EraseRows(s, r, r.Y, [i \in 1 .. r.X2 - r.X |-> SP])

\* an erase that takes the region as it comes
eraseRegionUnclamped(s, r) == EraseClamped(s, r)

eraseRegion(s, r) == EraseClamped(s, clampRegion(s, r))

setCursorPos(s, x, y) ==
  [s EXCEPT !.cursorPos = Pos(clamp(x, 0, s.size.X - 1), clamp(y, 0, s.size.Y - 1))]

setScrollMarginTopBottom(s, top, bottom) ==
  [s EXCEPT !.topMargin = clamp(top, 0, s.size.Y - 1),
            !.bottomMargin = clamp(bottom, 0, s.size.Y - 1)]

\* the rows of a plane after the copy loop of scroll: with dy > 0 the loop
\* runs from y2 down to y1+dy, with dy <= 0 from y1 up to y2+dy, so every
\* row is read before it is overwritten
\* a plane whose rows stay where they are
ScrollPlaneStill(p, h, y1, y2, dy) == p

ScrollPlane(p, h, y1, y2, dy) ==
  [y \in 0 .. h - 1 |->
     IF dy > 0 THEN (IF y >= y1 + dy /\ y <= y2 THEN p[y - dy] ELSE p[y])
     ELSE (IF y >= y1 /\ y <= y2 + dy THEN p[y - dy] ELSE p[y])]

\* a scroll that copies the rows and does not blank the rows it frees
ScrollClampedNoErase(s, y1, y2, dy) ==
  IF Faulted(s) \/ y1 > y2 THEN s
  ELSE [s EXCEPT !.chars = ScrollPlane(@, s.size.Y, y1, y2, dy),
                 !.frontColors = ScrollPlane(@, s.size.Y, y1, y2, dy),
                 !.backColors = ScrollPlane(@, s.size.Y, y1, y2, dy)]

\* scroll after its two clamps
ScrollClamped(s, y1, y2, dy) ==
  IF Faulted(s) \/ y1 > y2 THEN s
  ELSE IF dy > 0
    THEN eraseRegion([s EXCEPT
                       !.chars = ScrollPlane(@, s.size.Y, y1, y2, dy),
                       !.frontColors = ScrollPlane(@, s.size.Y, y1, y2, dy),
                       !.backColors = ScrollPlane(@, s.size.Y, y1, y2, dy)],
                     Region(0, y1, s.size.X, y1 + dy))
    ELSE eraseRegion([s EXCEPT
                       !.chars = ScrollPlane(@, s.size.Y, y1, y2, dy),
                       !.frontColors = ScrollPlane(@, s.size.Y, y1, y2, dy),
                       !.backColors = ScrollPlane(@, s.size.Y, y1, y2, dy)],
                     Region(0, y2 + dy + 1, s.size.X, y2 + 1))

scroll(s, y1, y2, dy) ==
  ScrollClamped(s, clamp(y1, 0, s.size.Y - 1), clamp(y2, 0, s.size.Y - 1), dy)

\* the two loops of moveCursor that bring X back into [0, size.X)
RECURSIVE WrapX(_, _, _)
WrapX(x, y, w) ==
  IF x < 0 THEN WrapX(x + w, y - 1, w)
  ELSE IF x >= w THEN WrapX(x - w, y + 1, w)
  ELSE Pos(x, y)

\* moveCursor, lines 1537-1550: the column
MoveX(s, dx, wrap) ==
  IF wrap /\ s.autoWrap
    THEN [s EXCEPT !.cursorPos = WrapX(s.cursorPos.X + dx, s.cursorPos.Y, s.size.X)]
    ELSE [s EXCEPT !.cursorPos.X = clamp(s.cursorPos.X + dx, 0, s.size.X - 1)]

\* lines 1554-1557: "if s.cursorPos.Y < s.topMargin"
ScrollAtTop(s) ==
  IF s.cursorPos.Y < s.topMargin
    THEN [scroll(s, s.topMargin, s.bottomMargin, s.topMargin - s.cursorPos.Y)
            EXCEPT !.cursorPos.Y = s.topMargin]
    ELSE s

\* lines 1558-1561: "if s.cursorPos.Y > s.bottomMargin"
ScrollAtBottom(s) ==
  IF s.cursorPos.Y > s.bottomMargin
    THEN [scroll(s, s.topMargin, s.bottomMargin, s.bottomMargin - s.cursorPos.Y)
            EXCEPT !.cursorPos.Y = s.bottomMargin - 1]
    ELSE s

\* lines 1565-1567: the panic on a row past the last one
CheckRow(s) ==
  IF ~Faulted(s) /\ s.cursorPos.Y >= s.size.Y
    THEN Fault(s, "moveCursor outside")
    ELSE s

\* lines 1552-1564: the row
MoveY(s, dy, doScroll) ==
  IF doScroll
    THEN ScrollAtBottom(ScrollAtTop([s EXCEPT !.cursorPos.Y = @ + dy]))
    ELSE [s EXCEPT !.cursorPos.Y = clamp(@ + dy, 0, s.size.Y - 1)]

moveCursor(s, dx, dy, wrap, doScroll) ==
  IF Faulted(s) THEN s
  ELSE CheckRow(MoveY(MoveX(s, dx, wrap), dy, doScroll))

\* one turn of the loop of writeRunes, l runes
WriteChunk(s, b, l) ==
  IF l < 0 THEN Fault(s, "slice bounds out of range")
  ELSE moveCursor(
         rawWriteRunes(s, s.cursorPos.X, s.cursorPos.Y, SubSeq(b, 1, l)),
         l, 0, TRUE, TRUE)

RECURSIVE writeRunes(_, _)
writeRunes(s, b) ==
  IF Faulted(s) \/ Len(b) = 0 THEN s
  ELSE writeRunes(
         WriteChunk(s, b, Min(s.size.X - s.cursorPos.X, Len(b))),
         SubSeq(b, Min(s.size.X - s.cursorPos.X, Len(b)) + 1, Len(b)))

\* setSize allocating fresh planes without the copy of the old cells
setSizeCleared(s, w, h) ==
  [s EXCEPT !.chars = [i \in 0 .. h - 1 |-> [x \in 0 .. w - 1 |-> SP]],
            !.backColors = [i \in 0 .. h - 1 |-> [x \in 0 .. w - 1 |-> s.backColor]],
            !.frontColors = [i \in 0 .. h - 1 |-> [x \in 0 .. w - 1 |-> s.frontColor]],
            !.size = Pos(w, h)]

\* setSize on a screen of size (0, 0) is the allocation done by newScreen
setSize(s, w, h) ==
  LET minW == Min(w, s.size.X)
      plane(p, fill) ==
        [i \in 0 .. h - 1 |->
           [x \in 0 .. w - 1 |->
              IF i < s.size.Y /\ x < minW THEN p[i][x] ELSE fill]]
  IN  IF Faulted(s) THEN s
      ELSE IF w <= 0 \/ h <= 0 THEN Fault(s, "Size must be > 0")
      ELSE [s EXCEPT
             !.chars = plane(s.chars, SP),
             !.backColors = plane(s.backColors, s.backColor),
             !.frontColors = plane(s.frontColors, s.frontColor),
             !.bottomMargin = h - (s.size.Y - s.bottomMargin),
             !.size = Pos(w, h),
             !.cursorPos = Pos(IF s.cursorPos.X > w THEN 0 ELSE s.cursorPos.X,
                               IF s.cursorPos.Y > h THEN 0 ELSE s.cursorPos.Y)]

\* the zero value of the screen struct; the zero Color is ColBlack
ZeroScreen ==
  [chars |-> <<>>, backColors |-> <<>>, frontColors |-> <<>>,
   frontColor |-> ColBlack, backColor |-> ColBlack,
   size |-> Pos(0, 0), cursorPos |-> Pos(0, 0),
   topMargin |-> 0, bottomMargin |-> 0, autoWrap |-> FALSE, fault |-> ""]

newScreen(cols, rows) ==
  LET s1 == setSize(ZeroScreen, cols, rows)
      s2 == setColors(s1, ColWhite, ColBlack)
      s3 == [s2 EXCEPT !.bottomMargin = s2.size.Y - 1]
  IN  eraseRegion(s3, Region(0, 0, s3.size.X, s3.size.Y))

\* ANSIEscape(fg, bg): the SGR prefix of a run, kept as one token
ANSIEscape(fg, bg) == [k |-> "sgr", fg |-> fg, bg |-> bg, r |-> 0]
\* buf.WriteRune
RuneTok(r) == [k |-> "rune", fg |-> ColBlack, bg |-> ColBlack, r |-> r]

\* the inner loop of renderLineANSI: the run of cells colored (fg, bg)
RECURSIVE RenderRun(_, _, _, _, _, _)
RenderRun(s, y, x, fg, bg, out) ==
  IF x < s.size.X /\ fg = s.frontColors[y][x] /\ bg = s.backColors[y][x]
    THEN RenderRun(s, y, x + 1, fg, bg, Append(out, RuneTok(s.chars[y][x])))
    ELSE [x |-> x, out |-> out]

RECURSIVE RenderFrom(_, _, _, _)
\* the outer loop resumes where a run ended
RenderNext(s, y, run) == RenderFrom(s, y, run.x, run.out)

\* the outer loop
RenderFrom(s, y, x, out) ==
  IF x >= s.size.X THEN out
  ELSE RenderNext(s, y,
         RenderRun(s, y, x, s.frontColors[y][x], s.backColors[y][x],
                   Append(out, ANSIEscape(s.frontColors[y][x], s.backColors[y][x]))))

\* a renderer that writes the SGR prefix before every cell
renderLineANSIPerCell(s, y) ==
  IF y >= s.size.Y \/ s.size.X = 0 THEN <<>>
  ELSE [i \in 1 .. 2 * s.size.X |->
          IF i % 2 = 1
            THEN ANSIEscape(s.frontColors[y][(i - 1) \div 2],
                            s.backColors[y][(i - 1) \div 2])
            ELSE RuneTok(s.chars[y][(i - 1) \div 2])]

renderLineANSI(s, y) ==
  IF y >= s.size.Y \/ s.size.X = 0 THEN <<>>
  ELSE RenderFrom(s, y, 0, <<>>)

\* ------------------------------------------------------------------ emulator

MMNone == 0
MMPress == 1
MMPressRelease == 2
MMPressReleaseMove == 3
MMPressReleaseMoveAll == 4
MEX10 == 0
MEUTF8 == 1
MESGR == 2

\* New: the data fields of the Emulator struct (the PTY handles, the stop
\* channel and the mutex are variables of their own) after e.resize(cols, rows)
NewEmulator(cols, rows) ==
  [mainScreen |-> setSize(newScreen(cols, rows), cols, rows),
   altScreen |-> setSize(newScreen(cols, rows), cols, rows),
   onAltScreen |-> FALSE,
   cmd |-> 0,
   processExited |-> FALSE,
   onExit |-> 0,
   frameRate |-> 33,
   viewFlags |-> [VFBlinkCursor |-> FALSE, VFShowCursor |-> FALSE,
                  VFReportFocus |-> FALSE, VFBracketedPaste |-> FALSE],
   viewInts |-> [VIMouseMode |-> MMNone, VIMouseEncoding |-> MEX10],
   viewStrings |-> [VSWindowTitle |-> <<>>, VSCurrentDirectory |-> <<>>,
                    VSCurrentFile |-> <<>>]]

currentScreen(e) == IF e.onAltScreen THEN e.altScreen ELSE e.mainScreen

switchScreen(e) == [e EXCEPT !.onAltScreen = ~e.onAltScreen]

\* currentScreen always returning the main screen
OnMainScreen(e, s) == [e EXCEPT !.mainScreen = s]

\* e with its current screen replaced by s (the code mutates through the
\* pointer currentScreen returns)
OnScreen(e, s) ==
  IF e.onAltScreen THEN [e EXCEPT !.altScreen = s] ELSE [e EXCEPT !.mainScreen = s]

\* the fault raised by a call on either screen
EmuFault(e) ==
  IF e.mainScreen.fault # "" THEN e.mainScreen.fault ELSE e.altScreen.fault

\* -------------------------------------------------------------------- parser

IsDigit(b) == b >= Ch("0") /\ b <= Ch("9")
IsParamByte(b) == b = Ch(";") \/ IsDigit(b)

\* strconv.Atoi of a run of digits; the error on "" is dropped and leaves 0
RECURSIVE AtoiFrom(_, _)
AtoiFrom(ds, acc) ==
  IF Len(ds) = 0 THEN acc
  ELSE AtoiFrom(Tail(ds), acc * 10 + (Head(ds) - Ch("0")))

Atoi(ds) == AtoiFrom(ds, 0)

\* strings.Split(paramBytes, ";")
RECURSIVE SplitSemi(_, _, _)
SplitSemi(bs, cur, acc) ==
  IF Len(bs) = 0 THEN Append(acc, cur)
  ELSE IF Head(bs) = Ch(";") THEN SplitSemi(Tail(bs), <<>>, Append(acc, cur))
  ELSE SplitSemi(Tail(bs), Append(cur, Head(bs)), acc)

ParseParams(paramBytes) ==
  LET parts == SplitSemi(paramBytes, <<>>, <<>>)
  IN  IF Len(parts) = 1 /\ parts[1] = <<>> THEN <<>>
      ELSE [i \in 1 .. Len(parts) |-> Atoi(parts[i])]

\* params[0] after "if len(params) == 0 { params = []int{d} }"
Param0(params, d) == IF Len(params) = 0 THEN d ELSE params[1]

\* the loop of case 'm'; i is the 0-based index, fc and bc the local colors.
\* Returns the screen and whether the loop ran to its end.
RECURSIVE SGRLoop(_, _, _, _, _)
SGRLoop(s, params, i, fc, bc) ==
  IF i >= Len(params) THEN [s |-> s, ok |-> TRUE]
  ELSE
    LET p == params[i + 1]
        n == Len(params)
        done(f, b, nexti) == SGRLoop(setColors(s, f, b), params, nexti, f, b)
    IN  CASE p = 0 -> done(ColWhite, ColBlack, i + 1)
          [] p >= 1 /\ p <= 8 -> done(SetMode(fc, ColorModes(p - 1)), bc, i + 1)
          [] p = 22 -> done(ResetMode(ResetMode(fc, ModeBold), ModeDim), bc, i + 1)
          [] p = 23 -> done(ResetMode(fc, ModeItalic), bc, i + 1)
          [] p = 24 -> done(ResetMode(fc, ModeUnderline), bc, i + 1)
          [] p = 27 -> done(ResetMode(fc, ModeReverse), bc, i + 1)
          [] p >= 30 /\ p <= 37 -> done(SetColor(fc, Colors8(p - 30)), bc, i + 1)
          [] p = 39 -> done(SetColor(fc, ColWhite), bc, i + 1)
          [] p >= 40 /\ p <= 47 -> done(fc, SetColor(bc, Colors8(p - 40)), i + 1)
          [] p = 49 -> done(fc, SetColor(bc, ColBlack), i + 1)
          [] p = 38 \/ p = 48 ->
               IF i + 2 < n
                 THEN CASE params[i + 2] = 5 ->
                             IF p = 38
                               THEN done(SetColor(fc, Color(params[i + 3] % 256)), bc, i + 3)
                               ELSE done(fc, SetColor(bc, Color(params[i + 3] % 256)), i + 3)
                        [] params[i + 2] = 2 ->
                             IF i + 4 < n
                               THEN IF p = 38
                                      THEN done(SetColorRGB(fc, params[i + 3], params[i + 4], params[i + 5]), bc, i + 5)
                                      ELSE done(fc, SetColorRGB(bc, params[i + 3], params[i + 4], params[i + 5]), i + 5)
                               ELSE done(fc, bc, i + 1)
                        \* default: continue (setColors is skipped)
                        [] OTHER -> SGRLoop(s, params, i + 1, fc, bc)
                 ELSE done(fc, bc, i + 1)
          [] p >= 90 /\ p <= 97 -> done(SetColor(fc, Color(p - 90 + 8)), bc, i + 1)
          [] p >= 100 /\ p <= 107 -> done(fc, SetColor(bc, Color(p - 100 + 8)), i + 1)
          \* default: return false
          [] OTHER -> [s |-> s, ok |-> FALSE]

\* the result of a command: the emulator, what was written to the PTY and
\* the bool that handleCommand returns
CmdResult(e, reply, ok) == [e |-> e, reply |-> reply, ok |-> ok]

\* "\033[?1;2c" and "\x1b[>1;4402;0c"
ReplyDA == <<27, 91, 63, 49, 59, 50, 99>>
ReplyDA2 == <<27, 91, 62, 49, 59, 52, 52, 48, 50, 59, 48, 99>>

\* a mode switch that knows the mouse mode 9 only
SetPrivateModeOnly9(e, p, value) ==
  CASE p = 9 -> [e EXCEPT !.viewInts.VIMouseMode = IF value THEN MMPress ELSE MMNone]
    [] OTHER -> e

\* the mode switch of "CSI ? Pm h/l", one parameter
SetPrivateMode(e, p, value) ==
  CASE p = 7 -> OnScreen(e, [currentScreen(e) EXCEPT !.autoWrap = value])
    [] p = 9 -> [e EXCEPT !.viewInts.VIMouseMode = IF value THEN MMPress ELSE MMNone]
    [] p = 12 -> [e EXCEPT !.viewFlags.VFBlinkCursor = value]
    [] p = 25 -> [e EXCEPT !.viewFlags.VFShowCursor = value]
    [] p = 1000 -> [e EXCEPT !.viewInts.VIMouseMode = IF value THEN MMPressRelease ELSE MMNone]
    [] p = 1002 -> [e EXCEPT !.viewInts.VIMouseMode = IF value THEN MMPressReleaseMove ELSE MMNone]
    [] p = 1003 -> [e EXCEPT !.viewInts.VIMouseMode = IF value THEN MMPressReleaseMoveAll ELSE MMNone]
    [] p = 1004 -> [e EXCEPT !.viewFlags.VFReportFocus = value]
    [] p = 1005 -> [e EXCEPT !.viewInts.VIMouseEncoding = IF value THEN MEUTF8 ELSE MEX10]
    [] p = 1006 -> [e EXCEPT !.viewInts.VIMouseEncoding = IF value THEN MESGR ELSE MEX10]
    [] p = 1049 -> switchScreen(e)
    [] p = 2004 -> [e EXCEPT !.viewFlags.VFBracketedPaste = value]
    [] OTHER -> e

RECURSIVE SetPrivateModes(_, _, _)
SetPrivateModes(e, params, value) ==
  IF Len(params) = 0 THEN e
  ELSE SetPrivateModes(SetPrivateMode(e, Head(params), value), Tail(params), value)

\* the dispatch of handleCmdCSI on the final byte b
DispatchCSI(e, prefix, params, b) ==
  LET s == currentScreen(e)
      n == Len(params)
      cx == s.cursorPos.X
      cy == s.cursorPos.Y
      scr(s2) == CmdResult(OnScreen(e, s2), <<>>, TRUE)
      bad == CmdResult(e, <<>>, FALSE)
  IN
  IF prefix = <<>> THEN
    CASE b = Ch("A") -> scr(moveCursor(s, 0, -Param0(params, 1), FALSE, TRUE))
      [] b = Ch("B") -> scr(moveCursor(s, 0, Param0(params, 1), FALSE, TRUE))
      [] b = Ch("C") -> scr(moveCursor(s, Param0(params, 1), 0, FALSE, FALSE))
      [] b = Ch("D") -> scr(moveCursor(s, -Param0(params, 1), 0, FALSE, FALSE))
      [] b = Ch("G") -> scr(setCursorPos(s, Param0(params, 1) - 1, cy))
      [] b = Ch("c") ->
           IF Param0(params, 1) = 0 THEN CmdResult(e, ReplyDA, TRUE)
           ELSE CmdResult(e, <<>>, TRUE)
      [] b = Ch("d") -> scr(setCursorPos(s, cx, Param0(params, 1) - 1))
      [] b = Ch("f") \/ b = Ch("H") ->
           scr(setCursorPos(s, (IF n >= 2 THEN params[2] ELSE 1) - 1,
                               (IF n >= 1 THEN params[1] ELSE 1) - 1))
      [] b = Ch("h") \/ b = Ch("l") ->
           IF n # 1 THEN bad
           ELSE IF params[1] = 4 THEN CmdResult(e, <<>>, TRUE)
           ELSE bad
      [] b = Ch("m") ->
           LET r == SGRLoop(s, IF n = 0 THEN <<0>> ELSE params, 0,
                            s.frontColor, s.backColor)
           IN  CmdResult(OnScreen(e, r.s), <<>>, r.ok)
      [] b = Ch("K") ->
           CASE n = 0 \/ Param0(params, 0) = 0 ->
                  scr(eraseRegion(s, Region(cx, cy, s.size.X, cy + 1)))
             [] n > 0 /\ params[1] = 1 ->
                  scr(eraseRegion(s, Region(0, cy, cx, cy + 1)))
             [] n > 0 /\ params[1] = 2 ->
                  scr(eraseRegion(s, Region(0, cy, s.size.X, cy + 1)))
             [] OTHER -> bad
      [] b = Ch("J") ->
           CASE n = 0 \/ Param0(params, 0) = 0 ->
                  scr(eraseRegion(s, Region(0, cy, s.size.X, s.size.Y)))
             [] n > 0 /\ params[1] = 1 ->
                  scr(eraseRegion(s, Region(0, 0, s.size.X, cy)))
             [] n > 0 /\ params[1] = 2 ->
                  scr(setCursorPos(
                        eraseRegion(s, Region(0, 0, s.size.X, s.size.Y)), 0, 0))
             [] OTHER -> bad
      [] b = Ch("L") -> scr(scroll(s, cy, s.bottomMargin, Param0(params, 1)))
      [] b = Ch("M") -> scr(scroll(s, cy, s.bottomMargin, -Param0(params, 1)))
      [] b = Ch("S") -> scr(scroll(s, s.topMargin, s.bottomMargin, -Param0(params, 1)))
      [] b = Ch("T") -> scr(scroll(s, s.topMargin, s.bottomMargin, Param0(params, 1)))
      [] b = Ch("P") \/ b = Ch("X") ->
           scr(eraseRegion(s, Region(cx, cy, cx + Param0(params, 1), cy + 1)))
      [] b = Ch("r") ->
           scr(setScrollMarginTopBottom(s,
                 (IF n >= 1 THEN params[1] ELSE 1) - 1,
                 (IF n >= 2 THEN params[2] ELSE s.size.Y) - 1))
      [] b = Ch("n") -> CmdResult(e, <<>>, TRUE)
      [] OTHER -> bad
  ELSE IF prefix = <<Ch("?")>> THEN
    IF b = Ch("h") \/ b = Ch("l")
      THEN CmdResult(SetPrivateModes(e, params, b = Ch("h")), <<>>, TRUE)
      ELSE bad
  ELSE IF prefix = <<Ch(">")>> THEN
    IF b = Ch("c") THEN CmdResult(e, ReplyDA2, TRUE) ELSE bad
  ELSE bad

\* a switch that takes every parameter for the window title
DispatchOSCAny(e, param, param2) ==
  CmdResult([e EXCEPT !.viewStrings.VSWindowTitle = param2], <<>>, TRUE)

\* the switch of handleCmdOSC on the numeric parameter
DispatchOSC(e, param, param2) ==
  CASE param = 0 \/ param = 2 ->
         CmdResult([e EXCEPT !.viewStrings.VSWindowTitle = param2], <<>>, TRUE)
    [] param = 6 ->
         CmdResult([e EXCEPT !.viewStrings.VSCurrentDirectory = param2], <<>>, TRUE)
    [] param = 7 ->
         CmdResult([e EXCEPT !.viewStrings.VSCurrentFile = param2], <<>>, TRUE)
    [] param = 4 \/ param = 104 \/ param = 112 -> CmdResult(e, <<>>, TRUE)
    [] OTHER -> CmdResult(e, <<>>, FALSE)

\* the position of handleCommand between two ReadRune calls: "esc" before
\* the read of line 148, "charset" before line 177, "csi" before line 196,
\* "csiN" before lines 205 and 215, "osc" before line 613, "oscS" before
\* line 632; with the bytes collected so far
ParserStart == [st |-> "esc", prefix |-> <<>>, paramBytes |-> <<>>, param2 |-> <<>>]

\* a step that ends the command
CmdDone(r) == [e |-> r.e, ps |-> ParserStart, done |-> TRUE, reply |-> r.reply, ok |-> r.ok]
\* a step that goes on to the next ReadRune
CmdMore(e, ps) == [e |-> e, ps |-> ps, done |-> FALSE, reply |-> <<>>, ok |-> TRUE]

\* the parameter loop of handleCmdCSI and, on the final byte, the dispatch
CSIParamOrFinal(e, ps, b) ==
  IF IsParamByte(b)
    THEN CmdMore(e, [ps EXCEPT !.st = "csiN", !.paramBytes = Append(@, b % 256)])
    ELSE CmdDone(DispatchCSI(e, ps.prefix, ParseParams(ps.paramBytes), b))

\* handleCommand, handleCmdCSI and handleCmdOSC from one ReadRune to the
\* next: the rune b has just been read with no error
CmdStep(e, ps, b) ==
  CASE ps.st = "esc" ->
         CASE b = Ch("c") \/ b = Ch("=") \/ b = Ch(">") ->
                CmdDone(CmdResult(e, <<>>, TRUE))
           [] b = Ch("D") ->
                CmdDone(CmdResult(
                  OnScreen(e, moveCursor(currentScreen(e), 0, 1, FALSE, TRUE)), <<>>, TRUE))
           [] b = Ch("M") ->
                CmdDone(CmdResult(
                  OnScreen(e, moveCursor(currentScreen(e), 0, -1, FALSE, TRUE)), <<>>, TRUE))
           [] b = Ch("[") -> CmdMore(e, [ps EXCEPT !.st = "csi"])
           [] b = Ch("]") -> CmdMore(e, [ps EXCEPT !.st = "osc"])
           [] b = Ch("(") \/ b = Ch(")") \/ b = Ch("*") \/ b = Ch("+") ->
                CmdMore(e, [ps EXCEPT !.st = "charset"])
           [] OTHER -> CmdDone(CmdResult(e, <<>>, FALSE))
    [] ps.st = "charset" -> CmdDone(CmdResult(e, <<>>, TRUE))
    [] ps.st = "csi" ->
         IF b = Ch("?") \/ b = Ch(">")
           THEN CmdMore(e, [ps EXCEPT !.st = "csiN", !.prefix = <<b % 256>>])
           ELSE CSIParamOrFinal(e, ps, b)
    [] ps.st = "csiN" -> CSIParamOrFinal(e, ps, b)
    [] ps.st = "osc" ->
         IF IsDigit(b)
           THEN CmdMore(e, [ps EXCEPT !.paramBytes = Append(@, b % 256)])
           ELSE IF b = Ch(";") THEN CmdMore(e, [ps EXCEPT !.st = "oscS"])
           ELSE IF b # BEL /\ b # ST THEN CmdDone(CmdResult(e, <<>>, FALSE))
           ELSE CmdDone(DispatchOSC(e, Atoi(ps.paramBytes), <<>>))
    [] ps.st = "oscS" ->
         IF b = BEL \/ b = ST
           THEN CmdDone(DispatchOSC(e, Atoi(ps.paramBytes), ps.param2))
           ELSE IF Len(ps.param2) > 0 /\ ps.param2[Len(ps.param2)] = ESC /\ b = Ch("\\")
             THEN CmdDone(DispatchOSC(e, Atoi(ps.paramBytes),
                                      SubSeq(ps.param2, 1, Len(ps.param2) - 1)))
             ELSE CmdMore(e, [ps EXCEPT !.param2 = Append(@, b % 256)])

\* "b >= 32 && (b <= 126 || b >= 128)"
IsPrintable(b) == b >= 32 /\ (b <= 126 \/ b >= 128)

\* the C0 cases of ptyReadLoop that take the lock
IsLockedC0(b) == b \in {BS, LF, FF, CR, DEL}

\* the body of those cases, run under the lock
DispatchC0(e, b) ==
  LET s == currentScreen(e)
  IN  CASE b = BS -> OnScreen(e, moveCursor(s, -1, 0, FALSE, FALSE))
        [] b = LF -> OnScreen(e, moveCursor(s, 0, 1, TRUE, TRUE))
        [] b = FF -> OnScreen(e, moveCursor(s, 0, 1, FALSE, TRUE))
        [] b = CR -> OnScreen(e, moveCursor(s, -s.cursorPos.X, 0, TRUE, TRUE))
        [] b = DEL -> OnScreen(e, eraseRegion(s,
                        Region(s.cursorPos.X, s.cursorPos.Y,
                               s.cursorPos.X + 1, s.cursorPos.Y + 1)))
        [] OTHER -> e

\* --------------------------------------------------------------------- state

VARIABLES
  e,         \* the data fields of the Emulator: screens, onAltScreen, settings
  mu,        \* e.mu, the RWMutex: w the writer that holds or waits for it,
             \* held whether w holds it, r the goroutines holding it shared
  stopChan,  \* e.stopChan: "open" or "closed"
  ptyOpen,   \* e.pty (the master) is not closed
  ttyOpen,   \* e.tty (the slave handle of the emulator) is not closed
  ptyOut,    \* runes written by the child, not yet read from the master
  ptyIn,     \* writes to the master, not yet read by the child
  childOut,  \* what the child has still to write
  rpc,       \* where the goroutine of ptyReadLoop stands
  rb,        \* its local b
  runes,     \* its local runes
  rbuf,      \* the unread part of the bufio.Reader's buffer
  ps,        \* handleCommand's position and collected bytes
  rreply,    \* the reply handleCmdCSI is writing to the PTY
  hpc,       \* where each host goroutine stands
  hop,       \* the call each host goroutine is in, with its arguments
  hdone,     \* the calls each host goroutine has returned from
  hret,      \* what the last call of each host goroutine returned
  mon,       \* each monitorProcess goroutine: where it stands, the
             \* command it waits for
  procs,     \* each command: "none", "running" or "exited", and whether
             \* its Wait has been called
  exitCalls, \* how many times the exit callback has been invoked
  input,     \* the size passed to New and the whole stream of the child
  widget,    \* the bubbleterm Model over the emulator, with the message it
             \* handled last and the command Update returned for it
  panicked   \* the panic that ended the process, "" while it runs

vars == <<e, mu, stopChan, ptyOpen, ttyOpen, ptyOut, ptyIn, childOut,
          rpc, rb, runes, rbuf, ps, rreply, hpc, hop, hdone, hret, mon,
          procs, exitCalls, input, widget, panicked>>

emuVars == <<e, mu, stopChan, ptyOpen, ttyOpen>>
ptyVars == <<ptyOut, ptyIn, childOut>>
readerVars == <<rpc, rb, runes, rbuf, ps, rreply>>
hostVars == <<hpc, hop, hdone, hret, mon, procs, exitCalls>>

Hosts == {"h1", "h2"}
Starts == {1, 2}

\* ------------------------------------------------------------------- RWMutex

MuFree == [w |-> "", held |-> FALSE, r |-> {}]

\* Lock, first half: the writer takes the inner mutex and announces itself;
\* from here on RLock blocks
CanAnnounce == mu.w = ""
Announce(t) == [mu EXCEPT !.w = t]
\* Lock, second half: the announced writer waits for the readers to leave
CanAcquire(t) == mu.w = t /\ ~mu.held /\ mu.r = {}
Acquire(t) == [mu EXCEPT !.held = TRUE]
Unlock(t) == [mu EXCEPT !.w = "", !.held = FALSE]
\* RLock blocks while a writer holds the lock or waits for it
CanRLock(t) == mu.w = ""
RLock(t) == [mu EXCEPT !.r = @ \cup {t}]
RUnlock(t) == [mu EXCEPT !.r = @ \ {t}]

HoldsLock(t) == mu.w = t /\ mu.held
HoldsRLock(t) == t \in mu.r

\* a host goroutine outside any call
NoCall == [op |-> "none", data |-> <<>>, cols |-> 0, rows |-> 0,
           alt |-> FALSE, n |-> 0, y |-> 0, out |-> <<>>,
           button |-> 0, mx |-> 0, my |-> 0, pressed |-> FALSE,
           mouseMode |-> 0, mouseEncoding |-> 0, readMode |-> 0]

\* what a host call returned
NoReturn == [op |-> "none", err |-> "", rows |-> <<>>, val |-> FALSE]
Return(op, err, rows) == [op |-> op, err |-> err, rows |-> rows, val |-> FALSE]
ReturnVal(op, val) == [op |-> op, err |-> "", rows |-> <<>>, val |-> val]

\* the process runs: no goroutine has panicked
Alive == panicked = ""

\* ----------------------------------------------------------------------- New

\* New(cols, rows): both screens, the open PTY pair, the running read loop
\* -------------------------------------------------------------- the widget

\* emulator.ID() of the widget's emulator and the id of another emulator
OwnID == "id-1"
OtherID == "id-2"

NL == [k |-> "nl", fg |-> ColBlack, bg |-> ColBlack, r |-> 10]

RECURSIVE Join(_)
\* strings.Join(rows, "\n")
Join(rows) ==
  IF rows = <<>> THEN <<>>
  ELSE IF Len(rows) = 1 THEN rows[1]
  ELSE rows[1] \o <<NL>> \o Join(Tail(rows))

\* strings.Repeat("\n", n)
Repeat(n) == [i \in 1 .. n |-> NL]

\* bubbleterm.New: the Model over a new emulator
New(width, height) ==
  [id |-> OwnID, width |-> width, height |-> height, focused |-> TRUE,
   err |-> "", frame |-> [i \in 1 .. height |-> <<>>],
   cachedView |-> Repeat(height - 1), autoPoll |-> TRUE]

\* a tea.Msg: its type k and the fields of that type
NoMsg ==
  [k |-> "none", EmulatorID |-> "", key |-> "", orig |-> "", button |-> 0,
   X |-> 0, Y |-> 0, Width |-> 0, Height |-> 0, Frame |-> <<>>, Err |-> "",
   Cmd |-> 0]

\* a tea.Cmd: nil, or the closure and what it captured
NoCmd ==
  [k |-> "nil", input |-> <<>>, x |-> 0, y |-> 0, button |-> 0,
   pressed |-> FALSE, width |-> 0, height |-> 0]
pollTerminal == [NoCmd EXCEPT !.k = "pollTerminal"]
sendInput(data) == [NoCmd EXCEPT !.k = "sendInput", !.input = data]
sendMouseEvent(x, y, button, pressed) ==
  [NoCmd EXCEPT !.k = "sendMouseEvent", !.x = x, !.y = y, !.button = button,
                !.pressed = pressed]
resizeTerminal(width, height) ==
  [NoCmd EXCEPT !.k = "resizeTerminal", !.width = width, !.height = height]

keyToTerminalInput(key) ==
  CASE key = "enter" -> <<CR>>
    [] key = "up" -> <<ESC, Ch("["), Ch("A")>>
    [] key = "A" -> <<Ch("A")>>
    [] OTHER -> <<>>

\* what Update returns: the Model, the command, and whether it called
\* emulator.StartCommand
Updated(m, cmd) == [m |-> m, cmd |-> cmd, started |-> FALSE]

\* Update, case translatedMouseMsg
UpdateTranslatedMouse(m, msg) ==
  IF ~m.focused THEN Updated(m, NoCmd)
  ELSE IF msg.EmulatorID # m.id THEN Updated(m, NoCmd)
  ELSE CASE msg.orig = "MouseClick" ->
              Updated(m, sendMouseEvent(msg.X, msg.Y, msg.button, TRUE))
         [] msg.orig = "MouseRelease" ->
              Updated(m, sendMouseEvent(msg.X, msg.Y, msg.button, FALSE))
         [] msg.orig = "MouseMotion" ->
              Updated(m, sendMouseEvent(msg.X, msg.Y, -1, FALSE))
         [] OTHER -> Updated(m, NoCmd)

\* a terminalOutputMsg applied whatever emulator it names
UpdateTerminalOutputAny(m, msg) ==
  Updated([m EXCEPT !.frame = msg.Frame, !.cachedView = Join(msg.Frame)],
          IF m.autoPoll THEN pollTerminal ELSE NoCmd)

\* Update, case terminalOutputMsg
UpdateTerminalOutput(m, msg) ==
  IF msg.EmulatorID # m.id THEN Updated(m, NoCmd)
  ELSE Updated([m EXCEPT !.frame = msg.Frame, !.cachedView = Join(msg.Frame)],
               IF m.autoPoll THEN pollTerminal ELSE NoCmd)

\* Update, case startCommandMsg; startErr is what emulator.StartCommand returns
UpdateStartCommand(m, msg, startErr) ==
  IF msg.EmulatorID # m.id THEN Updated(m, NoCmd)
  ELSE [m |-> IF startErr # "" THEN [m EXCEPT !.err = startErr] ELSE m,
        cmd |-> NoCmd, started |-> TRUE]

\* Model.Update
Update(m, msg, startErr) ==
  CASE msg.k = "Key" ->
         IF ~m.focused THEN Updated(m, NoCmd)
         ELSE IF keyToTerminalInput(msg.key) # <<>>
           THEN Updated(m, sendInput(keyToTerminalInput(msg.key)))
         ELSE Updated(m, NoCmd)
    [] msg.k = "MouseClick" ->
         IF ~m.focused THEN Updated(m, NoCmd)
         ELSE Updated(m, sendMouseEvent(msg.X, msg.Y, msg.button, TRUE))
    [] msg.k = "MouseRelease" ->
         IF ~m.focused THEN Updated(m, NoCmd)
         ELSE Updated(m, sendMouseEvent(msg.X, msg.Y, msg.button, FALSE))
    [] msg.k = "MouseMotion" ->
         IF ~m.focused THEN Updated(m, NoCmd)
         ELSE Updated(m, sendMouseEvent(msg.X, msg.Y, -1, FALSE))
    [] msg.k = "translatedMouse" -> UpdateTranslatedMouse(m, msg)
    [] msg.k = "WindowSize" ->
         IF msg.Width # m.width \/ msg.Height # m.height
           THEN Updated([m EXCEPT !.width = msg.Width, !.height = msg.Height],
                        resizeTerminal(msg.Width, msg.Height))
           ELSE Updated(m, NoCmd)
    [] msg.k = "terminalOutput" -> UpdateTerminalOutput(m, msg)
    [] msg.k = "terminalError" ->
         IF msg.EmulatorID # m.id THEN Updated(m, NoCmd)
         ELSE Updated([m EXCEPT !.err = msg.Err], NoCmd)
    [] msg.k = "startCommand" -> UpdateStartCommand(m, msg, startErr)
    [] OTHER -> Updated(m, NoCmd)

\* the widget in its host program: no message handled yet
Hosted(m) == [m |-> m, msg |-> NoMsg, cmd |-> NoCmd, n |-> 0, starts |-> 0]

InitWith(sizes, streams) ==
  /\ \E sz \in sizes, st \in streams :
       /\ e = NewEmulator(sz[1], sz[2])
       /\ childOut = st
       /\ input = [cols |-> sz[1], rows |-> sz[2], stream |-> st]
       /\ widget = Hosted(New(sz[1], sz[2]))
  /\ mu = MuFree
  /\ stopChan = "open"
  /\ ptyOpen = TRUE
  /\ ttyOpen = TRUE
  /\ ptyOut = <<>>
  /\ ptyIn = <<>>
  /\ rpc = "top"
  /\ rb = 0
  /\ runes = <<>>
  /\ rbuf = <<>>
  /\ ps = ParserStart
  /\ rreply = <<>>
  /\ hpc = [h \in Hosts |-> "idle"]
  /\ hop = [h \in Hosts |-> NoCall]
  /\ hdone = [h \in Hosts |-> 0]
  /\ hret = [h \in Hosts |-> NoReturn]
  /\ mon = [m \in Starts |-> [pc |-> "none", cmd |-> 0, onExit |-> 0]]
  /\ procs = [c \in Starts |-> [st |-> "none", waited |-> FALSE]]
  /\ exitCalls = 0
  /\ panicked = ""

\* --------------------------------------------------------------------- child

\* the child writes one rune to its terminal; it blocks while the kernel
\* queue is full
ChildWrite ==
  /\ Alive
  /\ childOut # <<>>
  /\ ptyOpen
  /\ Len(ptyOut) < PtyOutCap
  /\ ptyOut' = Append(ptyOut, Head(childOut))
  /\ childOut' = Tail(childOut)
  /\ UNCHANGED <<emuVars, ptyIn, readerVars, hostVars, input, widget, panicked>>

\* the child reads its input when it is not writing
ChildRead ==
  /\ Alive
  /\ childOut = <<>>
  /\ ptyIn # <<>>
  /\ ptyIn' = Tail(ptyIn)
  /\ UNCHANGED <<emuVars, ptyOut, childOut, readerVars, hostVars, input, widget, panicked>>

\* -------------------------------------------------------------------- reader

\* r.ReadRune(): from the buffer; with the buffer empty bufio reads the
\* master, which fails once it is closed, returns what the kernel queue
\* holds, and blocks while the queue is empty
CanRead == rbuf # <<>> \/ ~ptyOpen \/ ptyOut # <<>>
ReadErr == rbuf = <<>> /\ ~ptyOpen
ReadB == IF rbuf # <<>> THEN Head(rbuf) ELSE Head(ptyOut)
ReadBuf == IF rbuf # <<>> THEN Tail(rbuf) ELSE Tail(ptyOut)
ReadPtyOut == IF rbuf # <<>> THEN ptyOut ELSE <<>>

\* the loop "for b >= 32 && (b <= 126 || b >= 128)" of ptyReadLoop: it
\* reads on only while r.Buffered() > 0, so it never blocks
RECURSIVE TakeRun(_, _, _)
TakeRun(b, buf, acc) ==
  IF ~IsPrintable(b) THEN [b |-> b, buf |-> buf, runes |-> acc]
  ELSE IF Len(buf) = 0 THEN [b |-> b, buf |-> buf, runes |-> Append(acc, b)]
  ELSE TakeRun(Head(buf), Tail(buf), Append(acc, b))

\* where "switch b" goes
DispatchPc(b) ==
  IF b = ESC THEN "elock" ELSE IF IsLockedC0(b) THEN "clock" ELSE "top"

\* what ptyReadLoop does after the printable run is written
AfterRun(buf, b) == IF Len(buf) = 0 THEN "top" ELSE DispatchPc(b)

\* the select on e.stopChan at the top of the loop
ReaderPoll ==
  /\ Alive
  /\ rpc = "top"
  /\ rpc' = IF stopChan = "closed" THEN "exited" ELSE "read"
  /\ UNCHANGED <<emuVars, ptyVars, rb, runes, rbuf, ps, rreply, hostVars,
                 input, widget, panicked>>

\* lines 53-72: the first ReadRune and the printable run
ReaderRead ==
  /\ Alive
  /\ rpc = "read"
  /\ CanRead
  /\ IF ReadErr
       THEN /\ rpc' = "exited"
            /\ UNCHANGED <<rb, runes, rbuf, ptyOut>>
       ELSE \E t \in {TakeRun(ReadB, ReadBuf, <<>>)} :
                /\ rb' = t.b
                /\ runes' = t.runes
                /\ rbuf' = t.buf
                /\ ptyOut' = ReadPtyOut
                /\ rpc' = IF Len(t.runes) > 0 THEN "wlock" ELSE DispatchPc(t.b)
  /\ UNCHANGED <<emuVars, ptyIn, childOut, ps, rreply, hostVars, input, widget, panicked>>

\* e.mu.Lock() of the reader, first half
ReaderLock ==
  /\ Alive
  /\ rpc \in {"wlock", "clock", "elock"}
  /\ CanAnnounce
  /\ mu' = Announce("reader")
  /\ rpc' = CASE rpc = "wlock" -> "write" [] rpc = "clock" -> "c0" [] rpc = "elock" -> "eacq"
  /\ UNCHANGED <<e, stopChan, ptyOpen, ttyOpen, ptyVars, rb, runes, rbuf, ps,
                 rreply, hostVars, input, widget, panicked>>

\* lines 73-81: writeRunes under the lock, then "continue" on an empty buffer
ReaderWriteRunes ==
  /\ Alive
  /\ rpc = "write"
  /\ CanAcquire("reader")
  /\ e' = OnScreen(e, writeRunes(currentScreen(e), runes))
  /\ panicked' = EmuFault(e')
  /\ mu' = Unlock("reader")
  /\ rpc' = AfterRun(rbuf, rb)
  /\ runes' = <<>>
  /\ UNCHANGED <<stopChan, ptyOpen, ttyOpen, ptyVars, rb, rbuf, ps, rreply,
                 hostVars, input, widget>>

\* the cases 8, 10, 12, 13 and 127 of "switch b"
ReaderC0 ==
  /\ Alive
  /\ rpc = "c0"
  /\ CanAcquire("reader")
  /\ e' = DispatchC0(e, rb)
  /\ panicked' = EmuFault(e')
  /\ mu' = Unlock("reader")
  /\ rpc' = "top"
  /\ UNCHANGED <<stopChan, ptyOpen, ttyOpen, ptyVars, rb, runes, rbuf, ps,
                 rreply, hostVars, input, widget>>

\* case 27: e.mu.Lock() returns and handleCommand starts
ReaderEsc ==
  /\ Alive
  /\ rpc = "eacq"
  /\ CanAcquire("reader")
  /\ mu' = Acquire("reader")
  /\ rpc' = "cmd"
  /\ ps' = ParserStart
  /\ UNCHANGED <<e, stopChan, ptyOpen, ttyOpen, ptyVars, rb, runes, rbuf,
                 rreply, hostVars, input, widget, panicked>>

\* one ReadRune of handleCommand, handleCmdCSI or handleCmdOSC, with the lock
\* held, and the code up to the next ReadRune or to the return
ReaderCmdRune ==
  /\ Alive
  /\ rpc = "cmd"
  /\ CanRead
  /\ IF ReadErr
       THEN /\ mu' = Unlock("reader")
            /\ rpc' = "top"
            /\ ps' = ParserStart
            /\ UNCHANGED <<e, rbuf, ptyOut, rreply, panicked>>
       ELSE \E r \in {CmdStep(e, ps, ReadB)} :
                /\ e' = r.e
                /\ panicked' = EmuFault(r.e)
                /\ ps' = r.ps
                /\ rbuf' = ReadBuf
                /\ ptyOut' = ReadPtyOut
                /\ rreply' = r.reply
                /\ IF ~r.done THEN rpc' = "cmd" /\ mu' = mu
                   ELSE IF r.reply # <<>> THEN rpc' = "reply" /\ mu' = mu
                   ELSE rpc' = "top" /\ mu' = Unlock("reader")
  /\ UNCHANGED <<stopChan, ptyOpen, ttyOpen, ptyIn, childOut, rb, runes,
                 hostVars, input, widget>>

\* e.pty.Write of the device-attributes reply, with the lock held: it blocks
\* while the kernel queue is full; its error is dropped
ReaderReply ==
  /\ Alive
  /\ rpc = "reply"
  /\ ~ptyOpen \/ Len(ptyIn) < PtyInCap
  /\ ptyIn' = IF ptyOpen THEN Append(ptyIn, rreply) ELSE ptyIn
  /\ rreply' = <<>>
  /\ mu' = Unlock("reader")
  /\ rpc' = "top"
  /\ UNCHANGED <<e, stopChan, ptyOpen, ttyOpen, ptyOut, childOut, rb, runes,
                 rbuf, ps, hostVars, input, widget, panicked>>

Reader ==
  \/ ReaderPoll
  \/ ReaderRead
  \/ ReaderLock
  \/ ReaderWriteRunes
  \/ ReaderC0
  \/ ReaderEsc
  \/ ReaderCmdRune
  \/ ReaderReply

\* ---------------------------------------------------------- host operations

\* the arguments the hosts pass
WriteData == { <<Ch("A")>> }
ResizeSizes == { <<1, 1>>, <<3, 3>>, <<3, 1>>, <<0, 2>> }

\* the calls each host goroutine makes: one renders and types, the other
\* resizes and types, either may close
HostOps(h) ==
  IF h = "h1" THEN {"GetScreen", "Write", "Close", "StartCommand", "IsProcessExited"}
  ELSE {"Resize", "Write", "Close", "StartCommand", "SetOnExit"}

CanCall(h, op) == hpc[h] = "idle" /\ hdone[h] < MaxOps /\ op \in HostOps(h)
CanCallProc(h, op) == hpc[h] = "idle" /\ hdone[h] < MaxProcOps /\ op \in HostOps(h)

\* the screen a *screen pointer taken earlier refers to now
ScreenOf(alt) == IF alt THEN e.altScreen ELSE e.mainScreen

Returns(h, ret) ==
  /\ hpc' = [hpc EXCEPT ![h] = "idle"]
  /\ hop' = [hop EXCEPT ![h] = NoCall]
  /\ hdone' = [hdone EXCEPT ![h] = @ + 1]
  /\ hret' = [hret EXCEPT ![h] = ret]

\* GetScreen without its e.mu.RLock()
GetScreenBeginNoLock(h) ==
  /\ Alive
  /\ CanCall(h, "GetScreen")
  /\ hpc' = [hpc EXCEPT ![h] = "gs_row"]
  /\ hop' = [hop EXCEPT ![h] = [NoCall EXCEPT !.op = "GetScreen",
                                             !.alt = e.onAltScreen,
                                             !.n = currentScreen(e).size.Y]]
  /\ UNCHANGED <<emuVars, ptyVars, readerVars, hdone, hret, mon, procs,
                 exitCalls, input, widget, panicked>>

\* GetScreen: RLock, currentScreen, make([]string, screen.size.Y)
GetScreenBegin(h) ==
  /\ Alive
  /\ CanCall(h, "GetScreen")
  /\ CanRLock(h)
  /\ mu' = RLock(h)
  /\ hpc' = [hpc EXCEPT ![h] = "gs_row"]
  /\ hop' = [hop EXCEPT ![h] = [NoCall EXCEPT !.op = "GetScreen",
                                             !.alt = e.onAltScreen,
                                             !.n = currentScreen(e).size.Y]]
  /\ UNCHANGED <<e, stopChan, ptyOpen, ttyOpen, ptyVars, readerVars, hdone,
                 hret, mon, procs, exitCalls, input, widget, panicked>>

\* GetScreen: one turn of "for y := 0; y < screen.size.Y; y++"
GetScreenRow(h) ==
  /\ Alive
  /\ hpc[h] = "gs_row"
  /\ hop[h].y < ScreenOf(hop[h].alt).size.Y
  /\ IF hop[h].y >= hop[h].n
       THEN /\ panicked' = "index out of range"
            /\ hop' = hop
       ELSE /\ hop' = [hop EXCEPT ![h].y = @ + 1,
                                  ![h].out = Append(@, renderLineANSI(ScreenOf(hop[h].alt), hop[h].y))]
            /\ panicked' = panicked
  /\ UNCHANGED <<emuVars, ptyVars, readerVars, hpc, hdone, hret, mon, procs,
                 exitCalls, input, widget>>

\* GetScreen: the loop ends, the deferred RUnlock, the frame
GetScreenReturn(h) ==
  /\ Alive
  /\ hpc[h] = "gs_row"
  /\ hop[h].y >= ScreenOf(hop[h].alt).size.Y
  /\ mu' = RUnlock(h)
  /\ Returns(h, Return("GetScreen", "", hop[h].out))
  /\ UNCHANGED <<e, stopChan, ptyOpen, ttyOpen, ptyVars, readerVars, mon,
                 procs, exitCalls, input, widget, panicked>>

\* Write (and SendKey, which converts the key and calls it): RLock
WriteBegin(h) ==
  /\ Alive
  /\ CanCall(h, "Write")
  /\ CanRLock(h)
  /\ \E d \in WriteData :
       hop' = [hop EXCEPT ![h] = [NoCall EXCEPT !.op = "Write", !.data = d]]
  /\ mu' = RLock(h)
  /\ hpc' = [hpc EXCEPT ![h] = "w_write"]
  /\ UNCHANGED <<e, stopChan, ptyOpen, ttyOpen, ptyVars, readerVars, hdone,
                 hret, mon, procs, exitCalls, input, widget, panicked>>

\* Write: e.pty.Write blocks while the kernel queue is full and fails on a
\* closed master; then the deferred RUnlock
WritePty(h) ==
  /\ Alive
  /\ hpc[h] = "w_write"
  /\ ~ptyOpen \/ Len(ptyIn) < PtyInCap
  /\ ptyIn' = IF ptyOpen THEN Append(ptyIn, hop[h].data) ELSE ptyIn
  /\ mu' = RUnlock(h)
  /\ Returns(h, Return(hop[h].op, IF ptyOpen THEN "" ELSE "file already closed", <<>>))
  /\ UNCHANGED <<e, stopChan, ptyOpen, ttyOpen, ptyOut, childOut, readerVars,
                 mon, procs, exitCalls, input, widget, panicked>>

\* Resize (and SetSize, which calls it): Lock, first half
ResizeBegin(h) ==
  /\ Alive
  /\ CanCall(h, "Resize")
  /\ CanAnnounce
  /\ \E sz \in ResizeSizes :
       hop' = [hop EXCEPT ![h] = [NoCall EXCEPT !.op = "Resize",
                                               !.cols = sz[1], !.rows = sz[2]]]
  /\ mu' = Announce(h)
  /\ hpc' = [hpc EXCEPT ![h] = "rs_do"]
  /\ UNCHANGED <<e, stopChan, ptyOpen, ttyOpen, ptyVars, readerVars, hdone,
                 hret, mon, procs, exitCalls, input, widget, panicked>>

\* a resize that forgets the alternate screen
resizeMainOnly(cols, rows) ==
  [e EXCEPT !.mainScreen = setSize(@, cols, rows)]

\* resize: pty.Setsize, then setSize on both screens
resize(cols, rows) ==
  [e EXCEPT !.mainScreen = setSize(@, cols, rows),
            !.altScreen = setSize(@, cols, rows)]

\* Resize: Lock, second half, resize, the deferred Unlock
ResizeDo(h) ==
  /\ Alive
  /\ hpc[h] = "rs_do"
  /\ CanAcquire(h)
  /\ e' = IF ptyOpen THEN resize(hop[h].cols, hop[h].rows) ELSE e
  /\ panicked' = EmuFault(e')
  /\ mu' = Unlock(h)
  /\ Returns(h, Return("Resize", IF ptyOpen THEN "" ELSE "bad file descriptor", <<>>))
  /\ UNCHANGED <<stopChan, ptyOpen, ttyOpen, ptyVars, readerVars, mon, procs,
                 exitCalls, input, widget>>

\* Close: close(e.stopChan)
CloseBegin(h) ==
  /\ Alive
  /\ CanCall(h, "Close")
  /\ IF stopChan = "closed"
       THEN /\ panicked' = "close of closed channel"
            /\ UNCHANGED <<stopChan, hpc, hop>>
       ELSE /\ stopChan' = "closed"
            /\ hpc' = [hpc EXCEPT ![h] = "cl_tty"]
            /\ hop' = [hop EXCEPT ![h] = [NoCall EXCEPT !.op = "Close"]]
            /\ panicked' = panicked
  /\ UNCHANGED <<e, mu, ptyOpen, ttyOpen, ptyVars, readerVars, hdone, hret,
                 mon, procs, exitCalls, input, widget>>

\* Close: e.tty.Close()
CloseTty(h) ==
  /\ Alive
  /\ hpc[h] = "cl_tty"
  /\ ttyOpen' = FALSE
  /\ hpc' = [hpc EXCEPT ![h] = "cl_pty"]
  /\ UNCHANGED <<e, mu, stopChan, ptyOpen, ptyVars, readerVars, hop, hdone,
                 hret, mon, procs, exitCalls, input, widget, panicked>>

\* Close: e.pty.Close(), return nil
ClosePty(h) ==
  /\ Alive
  /\ hpc[h] = "cl_pty"
  /\ ptyOpen' = FALSE
  /\ Returns(h, Return("Close", "", <<>>))
  /\ UNCHANGED <<e, mu, stopChan, ttyOpen, ptyVars, readerVars, mon, procs,
                 exitCalls, input, widget, panicked>>

\* ------------------------------------------------------------- SendMouse

MaxMouseOps == 1

\* the events a host sends: (button, x, y, pressed); button -1 is motion
MouseEvents ==
  { <<0, 5, 10, TRUE>>, <<0, 5, 10, FALSE>>, <<-1, 5, 10, FALSE>>,
    <<-1, 5, 10, TRUE>>, <<2, 223, 10, TRUE>>, <<2, 5, 223, FALSE>>,
    <<1, 222, 222, TRUE>> }

\* one host goroutine reports the mouse
MouseEventsOf(h) == IF h = "h1" THEN MouseEvents ELSE {}

\* fmt's %d
RECURSIVE Digits(_)
Digits(n) ==
  IF n < 10 THEN <<48 + n>> ELSE Append(Digits(n \div 10), 48 + (n % 10))

Itoa(n) == IF n < 0 THEN <<Ch("-")>> \o Digits(0 - n) ELSE Digits(n)

\* fmt's %c: the rune, U+FFFD for a value that is no code point
RuneOf(v) ==
  IF v < 0 \/ v > 1114111 \/ (v >= 55296 /\ v <= 57343) THEN 65533 ELSE v

\* a filter that lets every event through
MouseDroppedNever(mode, button, pressed) == FALSE

\* the switch on mouseMode: the events that return nil at once
MouseDropped(mode, button, pressed) ==
  \/ mode = MMPress /\ (~pressed \/ button = -1)
  \/ mode = MMPressRelease /\ button = -1

\* the switch on mouseMode: the button code of a motion event
MouseButton(mode, button) ==
  IF button = -1 /\ mode = MMPressReleaseMove THEN 32
  ELSE IF button = -1 /\ mode = MMPressReleaseMoveAll THEN 35
  ELSE button

\* the default branch of the switch on mouseEncoding returns nil
MouseTooFar(enc, x, y) ==
  enc \notin {MESGR, MEUTF8} /\ (x > 222 \/ y > 222)

\* the switch on mouseEncoding; isMotion is taken from the button passed in
mouseSeq(enc, button, isMotion, x, y, pressed) ==
  IF enc = MESGR
    THEN <<ESC, Ch("["), Ch("<")>> \o Itoa(button) \o <<Ch(";")>>
           \o Itoa(x + 1) \o <<Ch(";")>> \o Itoa(y + 1)
           \o <<IF ~pressed /\ ~isMotion THEN Ch("m") ELSE Ch("M")>>
  ELSE IF enc = MEUTF8
    THEN <<ESC, Ch("["), Ch("M"),
           RuneOf(32 + button + (IF ~pressed /\ ~isMotion THEN 3 ELSE 0)),
           RuneOf(32 + x + 1), RuneOf(32 + y + 1)>>
  ELSE <<ESC, Ch("["), Ch("M"),
         RuneOf(32 + button), RuneOf(32 + x + 1), RuneOf(32 + y + 1)>>

\* SendMouse: RLock, read the two settings, RUnlock
SendMouseBegin(h) ==
  /\ Alive
  /\ hpc[h] = "idle"
  /\ hdone[h] < MaxMouseOps
  /\ CanRLock(h)
  /\ \E ev \in MouseEventsOf(h) :
       hop' = [hop EXCEPT ![h] =
                 [NoCall EXCEPT !.op = "SendMouse",
                                !.button = ev[1], !.mx = ev[2], !.my = ev[3],
                                !.pressed = ev[4],
                                !.mouseMode = e.viewInts.VIMouseMode,
                                !.mouseEncoding = e.viewInts.VIMouseEncoding,
                                !.readMode = e.viewInts.VIMouseMode]]
  /\ hpc' = [hpc EXCEPT ![h] =
               IF e.viewInts.VIMouseMode = MMNone THEN "sm_lock" ELSE "sm_send"]
  /\ UNCHANGED <<e, mu, stopChan, ptyOpen, ttyOpen, ptyVars, readerVars, hdone,
                 hret, mon, procs, exitCalls, input, widget, panicked>>

\* SendMouse, mouseMode == MMNone: Lock, first half
SendMouseLock(h) ==
  /\ Alive
  /\ hpc[h] = "sm_lock"
  /\ CanAnnounce
  /\ mu' = Announce(h)
  /\ hpc' = [hpc EXCEPT ![h] = "sm_enable"]
  /\ UNCHANGED <<e, stopChan, ptyOpen, ttyOpen, ptyVars, readerVars, hop, hdone,
                 hret, mon, procs, exitCalls, input, widget, panicked>>

\* an implicit enable that leaves the emulator's settings alone
EnableMouseLocal == e

\* SendMouse, mouseMode == MMNone: the two settings under the lock
EnableMouse ==
  [e EXCEPT !.viewInts.VIMouseMode = MMPressReleaseMoveAll,
            !.viewInts.VIMouseEncoding = MESGR]

\* SendMouse, mouseMode == MMNone: Lock, second half, the settings, Unlock
SendMouseEnable(h) ==
  /\ Alive
  /\ hpc[h] = "sm_enable"
  /\ CanAcquire(h)
  /\ e' = EnableMouse
  /\ hop' = [hop EXCEPT ![h].mouseMode = MMPressReleaseMoveAll,
                        ![h].mouseEncoding = MESGR]
  /\ mu' = Unlock(h)
  /\ hpc' = [hpc EXCEPT ![h] = "sm_send"]
  /\ UNCHANGED <<stopChan, ptyOpen, ttyOpen, ptyVars, readerVars, hdone, hret,
                 mon, procs, exitCalls, input, widget, panicked>>

\* the call in flight returns nil without writing
MouseSkips(c) ==
  \/ MouseDropped(c.mouseMode, c.button, c.pressed)
  \/ MouseTooFar(c.mouseEncoding, c.mx, c.my)

\* the bytes the call in flight hands to Write
MouseBytes(c) ==
  mouseSeq(c.mouseEncoding, MouseButton(c.mouseMode, c.button), c.button = -1,
           c.mx, c.my, c.pressed)

\* SendMouse: the filter, the encoding, and Write's RLock
SendMouseSend(h) ==
  /\ Alive
  /\ hpc[h] = "sm_send"
  /\ IF MouseSkips(hop[h])
       THEN /\ Returns(h, Return("SendMouse", "", <<>>))
            /\ mu' = mu
       ELSE /\ CanRLock(h)
            /\ mu' = RLock(h)
            /\ hop' = [hop EXCEPT ![h].data = MouseBytes(hop[h])]
            /\ hpc' = [hpc EXCEPT ![h] = "w_write"]
            /\ UNCHANGED <<hdone, hret>>
  /\ UNCHANGED <<e, stopChan, ptyOpen, ttyOpen, ptyVars, readerVars, mon,
                 procs, exitCalls, input, widget, panicked>>

\* ------------------------------------------------------- the child process

MonName(m) == IF m = 1 THEN "m1" ELSE "m2"

\* the *exec.Cmd the next StartCommand is given
NewCmds == {c \in Starts : procs[c].st = "none"}
NextCmd == CHOOSE c \in NewCmds : \A d \in NewCmds : c <= d

\* StartCommand: Lock, first half
StartCommandBegin(h) ==
  /\ Alive
  /\ CanCallProc(h, "StartCommand")
  /\ NewCmds # {}
  /\ CanAnnounce
  /\ mu' = Announce(h)
  /\ hpc' = [hpc EXCEPT ![h] = "sc_lock"]
  /\ hop' = [hop EXCEPT ![h] = [NoCall EXCEPT !.op = "StartCommand"]]
  /\ UNCHANGED <<e, stopChan, ptyOpen, ttyOpen, ptyVars, readerVars, hdone,
                 hret, mon, procs, exitCalls, input, widget, panicked>>

\* StartCommand: Lock, second half
StartCommandLock(h) ==
  /\ Alive
  /\ hpc[h] = "sc_lock"
  /\ CanAcquire(h)
  /\ mu' = Acquire(h)
  /\ hpc' = [hpc EXCEPT ![h] = "sc_body"]
  /\ UNCHANGED <<e, stopChan, ptyOpen, ttyOpen, ptyVars, readerVars, hop,
                 hdone, hret, mon, procs, exitCalls, input, widget, panicked>>

\* StartCommand: e.cmd = cmd, e.processExited = false, cmd.Start(), which
\* may fail, go e.monitorProcess(), the deferred Unlock
StartCommandBody(h) ==
  /\ Alive
  /\ hpc[h] = "sc_body"
  /\ e' = [e EXCEPT !.cmd = NextCmd, !.processExited = FALSE]
  /\ \E started \in BOOLEAN :
       /\ procs' = [procs EXCEPT ![NextCmd].st = IF started THEN "running" ELSE "failed"]
       /\ mon' = IF started THEN [mon EXCEPT ![NextCmd].pc = "check"] ELSE mon
       /\ hret' = [hret EXCEPT ![h] =
                     Return("StartCommand", IF started THEN "" ELSE "exec: start failed", <<>>)]
  /\ mu' = Unlock(h)
  /\ hpc' = [hpc EXCEPT ![h] = "idle"]
  /\ hop' = [hop EXCEPT ![h] = NoCall]
  /\ hdone' = [hdone EXCEPT ![h] = @ + 1]
  /\ UNCHANGED <<stopChan, ptyOpen, ttyOpen, ptyVars, readerVars, exitCalls,
                 input, widget, panicked>>

\* the child process exits
CmdExit(c) ==
  /\ Alive
  /\ procs[c].st = "running"
  /\ procs' = [procs EXCEPT ![c].st = "exited"]
  /\ UNCHANGED <<emuVars, ptyVars, readerVars, hpc, hop, hdone, hret, mon,
                 exitCalls, input, widget, panicked>>

\* monitorProcess: "if e.cmd == nil"
MonitorCheck(m) ==
  /\ Alive
  /\ mon[m].pc = "check"
  /\ mon' = [mon EXCEPT ![m].pc = IF e.cmd = 0 THEN "done" ELSE "wait"]
  /\ UNCHANGED <<emuVars, ptyVars, readerVars, hpc, hop, hdone, hret, procs,
                 exitCalls, input, widget, panicked>>

\* monitorProcess: e.cmd.Wait() is called on the command e.cmd holds now; it
\* fails at once on a command that did not start (c.Process == nil) or
\* whose Wait has returned already (c.ProcessState != nil), and blocks
\* otherwise
MonitorWait(m) ==
  /\ Alive
  /\ mon[m].pc = "wait"
  /\ mon' = [mon EXCEPT ![m].cmd = e.cmd,
                        ![m].pc = IF procs[e.cmd].st = "failed" \/ procs[e.cmd].waited
                                    THEN "lock" ELSE "waiting"]
  /\ procs' = procs
  /\ UNCHANGED <<emuVars, ptyVars, readerVars, hpc, hop, hdone, hret,
                 exitCalls, input, widget, panicked>>

\* monitorProcess: Wait returns when the command has exited
MonitorWaited(m) ==
  /\ Alive
  /\ mon[m].pc = "waiting"
  /\ procs[mon[m].cmd].st = "exited"
  /\ mon' = [mon EXCEPT ![m].pc = "lock"]
  /\ procs' = [procs EXCEPT ![mon[m].cmd].waited = TRUE]
  /\ UNCHANGED <<emuVars, ptyVars, readerVars, hpc, hop, hdone, hret,
                 exitCalls, input, widget, panicked>>

\* monitorProcess: Lock, first half
MonitorLock(m) ==
  /\ Alive
  /\ mon[m].pc = "lock"
  /\ CanAnnounce
  /\ mu' = Announce(MonName(m))
  /\ mon' = [mon EXCEPT ![m].pc = "mark"]
  /\ UNCHANGED <<e, stopChan, ptyOpen, ttyOpen, ptyVars, readerVars, hpc, hop,
                 hdone, hret, procs, exitCalls, input, widget, panicked>>

\* monitorProcess: Lock, second half, e.processExited = true,
\* onExit := e.onExit, Unlock
MonitorMark(m) ==
  /\ Alive
  /\ mon[m].pc = "mark"
  /\ CanAcquire(MonName(m))
  /\ e' = [e EXCEPT !.processExited = TRUE]
  /\ mon' = [mon EXCEPT ![m].pc = "callback", ![m].onExit = e.onExit]
  /\ mu' = Unlock(MonName(m))
  /\ UNCHANGED <<stopChan, ptyOpen, ttyOpen, ptyVars, readerVars, hpc, hop,
                 hdone, hret, procs, exitCalls, input, widget, panicked>>

\* monitorProcess: "if onExit != nil { onExit(id) }"
MonitorCallback(m) ==
  /\ Alive
  /\ mon[m].pc = "callback"
  /\ exitCalls' = IF mon[m].onExit # 0 THEN exitCalls + 1 ELSE exitCalls
  /\ mon' = [mon EXCEPT ![m].pc = "done"]
  /\ UNCHANGED <<emuVars, ptyVars, readerVars, hpc, hop, hdone, hret, procs,
                 input, widget, panicked>>

Monitor(m) ==
  \/ MonitorCheck(m)
  \/ MonitorWait(m)
  \/ MonitorWaited(m)
  \/ MonitorLock(m)
  \/ MonitorMark(m)
  \/ MonitorCallback(m)

\* the callbacks a host registers: nil or a function
Callbacks == {0, 1}

\* SetOnExit: Lock, first half
SetOnExitBegin(h) ==
  /\ Alive
  /\ CanCallProc(h, "SetOnExit")
  /\ CanAnnounce
  /\ \E cb \in Callbacks :
       hop' = [hop EXCEPT ![h] = [NoCall EXCEPT !.op = "SetOnExit", !.n = cb]]
  /\ mu' = Announce(h)
  /\ hpc' = [hpc EXCEPT ![h] = "oe_do"]
  /\ UNCHANGED <<e, stopChan, ptyOpen, ttyOpen, ptyVars, readerVars, hdone,
                 hret, mon, procs, exitCalls, input, widget, panicked>>

\* SetOnExit: Lock, second half, e.onExit = callback, the deferred Unlock
SetOnExitDo(h) ==
  /\ Alive
  /\ hpc[h] = "oe_do"
  /\ CanAcquire(h)
  /\ e' = [e EXCEPT !.onExit = hop[h].n]
  /\ mu' = Unlock(h)
  /\ Returns(h, Return("SetOnExit", "", <<>>))
  /\ UNCHANGED <<stopChan, ptyOpen, ttyOpen, ptyVars, readerVars, mon, procs,
                 exitCalls, input, widget, panicked>>

\* IsProcessExited: RLock, the read, RUnlock
IsProcessExited(h) ==
  /\ Alive
  /\ CanCallProc(h, "IsProcessExited")
  /\ CanRLock(h)
  /\ hret' = [hret EXCEPT ![h] = ReturnVal("IsProcessExited", e.processExited)]
  /\ hdone' = [hdone EXCEPT ![h] = @ + 1]
  /\ UNCHANGED <<emuVars, ptyVars, readerVars, hpc, hop, mon, procs,
                 exitCalls, input, widget, panicked>>

\* ------------------------------------------------- the stream, one by one

\* ptyReadLoop on a rune that arrives alone (r.Buffered() = 0 after every
\* read): a printable rune is a run of one, a control is dispatched, ESC
\* starts handleCommand, which takes the runes that follow.  st is the
\* emulator, whether handleCommand is running, and its position.
FedCmd(r) == [e |-> r.e, incmd |-> ~r.done, ps |-> r.ps]

FeedOne(st, b) ==
  IF st.e.mainScreen.fault # "" \/ st.e.altScreen.fault # "" THEN st
  ELSE IF st.incmd
    THEN FedCmd(CmdStep(st.e, st.ps, b))
  ELSE IF IsPrintable(b)
    THEN [st EXCEPT !.e = OnScreen(st.e, writeRunes(currentScreen(st.e), <<b>>))]
  ELSE IF b = ESC THEN [st EXCEPT !.incmd = TRUE, !.ps = ParserStart]
  ELSE [st EXCEPT !.e = DispatchC0(st.e, b)]

RECURSIVE FeedAll(_, _)
FeedAll(st, stream) ==
  IF Len(stream) = 0 THEN st
  ELSE FeedAll(FeedOne(st, Head(stream)), Tail(stream))

\* the emulator after the whole stream of the child, rune by rune
OneByOne ==
  FeedAll([e |-> NewEmulator(input.cols, input.rows), incmd |-> FALSE,
           ps |-> ParserStart], input.stream).e

\* ----------------------------------------------------- the parser's streams

\* ESC [ params final
CSI(params, final) == <<ESC, Ch("[")>> \o params \o <<Ch(final)>>

\* all concatenations of at most n chunks
RECURSIVE Concats(_, _)
Concats(chunks, n) ==
  IF n = 0 THEN {<<>>}
  ELSE LET shorter == Concats(chunks, n - 1)
       IN  shorter \cup {s \o c : s \in shorter, c \in chunks}

StreamChunks ==
  { <<Ch("A")>>, <<LF>>, <<CR>>,
    CSI(<<Ch("1"), Ch(";"), Ch("1")>>, "r"),
    CSI(<<Ch("2"), Ch(";"), Ch("1")>>, "r"),
    CSI(<<Ch("?"), Ch("7")>>, "h"),
    CSI(<<Ch("0")>>, "c"),
    <<ESC, Ch("M")>> }

StreamSizes == {<<2, 2>>, <<3, 2>>}

StreamInit == InitWith(StreamSizes, Concats(StreamChunks, MaxChunks))

StreamNext ==
  \/ ChildWrite
  \/ ChildRead
  \/ Reader

\* the read loop fed by a child, with no host call
StreamSpec == StreamInit /\ [][StreamNext]_vars

\* -------------------------------------------------------------------- claims

InGrid(s) ==
  /\ 0 <= s.cursorPos.X /\ s.cursorPos.X < s.size.X
  /\ 0 <= s.cursorPos.Y /\ s.cursorPos.Y < s.size.Y

\* C1: on a grid of fixed size, after any sequence of child bytes the
\* cursor of the current grid satisfies 0 <= x < W and 0 <= y < H.
C1_CursorInGrid == InGrid(currentScreen(e))

\* C2: no sequence of child bytes takes the session down: the reader does
\* not panic and does not stop.
C2_ReaderSurvives == panicked = "" /\ rpc # "exited"

MarginsOrdered(s) ==
  /\ 0 <= s.topMargin
  /\ s.topMargin <= s.bottomMargin
  /\ s.bottomMargin < s.size.Y

\* C3: in every reachable state each grid satisfies
\* 0 <= top_margin <= bottom_margin < H.
C3_MarginsOrdered == MarginsOrdered(e.mainScreen) /\ MarginsOrdered(e.altScreen)

\* the child has written its whole stream and the reader has taken all of
\* it: it is blocked in a read with nothing left to read
Quiescent ==
  /\ panicked = ""
  /\ childOut = <<>> /\ ptyOut = <<>> /\ rbuf = <<>>
  /\ rpc \in {"read", "cmd"}

\* C4: however the PTY delivers the stream in read bursts, the grid, cursor
\* and settings that result equal those of applying the bytes one by one.
C4_BurstsAsOneByOne == Quiescent => e = OneByOne

\* ------------------------------------------------ the emulator and its hosts

SpecStreams ==
  { <<Ch("A"), LF>>,
    CSI(<<Ch("0")>>, "c"),
    <<Ch("A"), Ch("A"), Ch("A"), Ch("A")>> }
SpecSizes == { <<2, 2>> }

Init == InitWith(SpecSizes, SpecStreams)

Host(h) ==
  \/ GetScreenBegin(h)
  \/ GetScreenRow(h)
  \/ GetScreenReturn(h)
  \/ WriteBegin(h)
  \/ WritePty(h)
  \/ ResizeBegin(h)
  \/ ResizeDo(h)
  \/ CloseBegin(h)
  \/ CloseTty(h)
  \/ ClosePty(h)

Next ==
  \/ ChildWrite
  \/ ChildRead
  \/ Reader
  \/ \E h \in Hosts : Host(h)

Spec == Init /\ [][Next]_vars

\* ------------------------------------------- the emulator and its command

ProcInit == InitWith(SpecSizes, {<<>>})

ProcHost(h) ==
  \/ StartCommandBegin(h)
  \/ StartCommandLock(h)
  \/ StartCommandBody(h)
  \/ SetOnExitBegin(h)
  \/ SetOnExitDo(h)
  \/ IsProcessExited(h)

ProcNext ==
  \/ \E h \in Hosts : ProcHost(h)
  \/ \E m \in Starts : Monitor(m)
  \/ \E c \in Starts : CmdExit(c)

ProcSpec == ProcInit /\ [][ProcNext]_vars

\* ------------------------------------------------------------ the lock

\* the reader goroutine is blocked in r.ReadRune()
ReaderBlockedInRead == rpc \in {"read", "cmd"} /\ ~CanRead

\* C5: the reader goroutine never holds the lock while it is blocked in a
\* read of the PTY
C5_ReaderReadsUnlocked == ReaderBlockedInRead => ~HoldsLock("reader")

\* the host goroutine h is blocked in e.pty.Write
HostBlockedInWrite(h) == hpc[h] = "w_write" /\ ptyOpen /\ Len(ptyIn) >= PtyInCap

\* the reader goroutine has announced itself in Lock and waits for the
\* readers to leave
ReaderWaitsForLock == mu.w = "reader" /\ ~mu.held /\ mu.r # {}

\* the child is blocked in a write to its terminal
ChildBlockedInWrite == childOut # <<>> /\ ptyOpen /\ Len(ptyOut) >= PtyOutCap

\* C6: no host goroutine blocked in the PTY write holds the lock, so host,
\* reader and child never wait for one another through full PTY buffers
C6_NoPtyDeadlock ==
  ~ \E h \in Hosts :
      /\ HostBlockedInWrite(h)
      /\ HoldsRLock(h)
      /\ ReaderWaitsForLock
      /\ ChildBlockedInWrite

\* the goroutines about to read e.cmd, and those about to write it
CmdReaders == {m \in Starts : mon[m].pc \in {"check", "wait"}}
CmdWriters == {h \in Hosts : hpc[h] = "sc_body"}

\* C7: every access of emulator state is made under the lock, so no
\* goroutine reads a field (here the child handle e.cmd) while another is
\* about to write it
C7_NoRaceOnCmd == CmdReaders = {} \/ CmdWriters = {}

\* C8: Close is idempotent: a second call does not panic
C8_CloseIdempotent == panicked # "close of closed channel"

\* C9: after Close the reader goroutine terminates: a run that has closed
\* the emulator and then stops for good has left ptyReadLoop before
C9_ClosedReaderTerminates ==
  (stopChan = "closed" /\ ~Alive) => rpc = "exited"

\* the frame GetScreen would build from the grid as it is now
FrameOf(s) == [y \in 1..s.size.Y |-> renderLineANSI(s, y - 1)]

\* C10: the frame a GetScreen call returns has exactly H rows, all of them
\* rendered from the one grid state current when the call returns
C10_SnapshotOfOneGrid ==
  [][\A h \in Hosts :
       (hpc[h] = "gs_row" /\ hpc'[h] = "idle")
         => hret'[h].rows = FrameOf(currentScreen(e))]_vars

\* a returned frame that shows what the child wrote, with a Resize of the
\* other host returned as well
C10_SnapshotTaken ==
  /\ hret["h1"].op = "GetScreen"
  /\ hret["h2"].op = "Resize"
  /\ hret["h1"].rows # <<>>
  /\ \E i \in 1..Len(hret["h1"].rows[1]) : hret["h1"].rows[1][i].r = Ch("A")

\* ------------------------------------------------------- the exit callback

\* the commands that have exited
Exited == {c \in Starts : procs[c].st = "exited"}

\* C11: the exit callback is invoked exactly once for an exit of the child:
\* it has never run more often than children have exited
C11_CallbackOncePerExit == exitCalls <= Cardinality(Exited)

\* ------------------------------------------------- the alternate screen

Enter1049 == CSI(<<Ch("?"), Ch("1"), Ch("0"), Ch("4"), Ch("9")>>, "h")
Leave1049 == CSI(<<Ch("?"), Ch("1"), Ch("0"), Ch("4"), Ch("9")>>, "l")

AltChunks ==
  { <<Ch("A")>>, <<LF>>, Enter1049, Leave1049,
    CSI(<<Ch("3"), Ch("1")>>, "m") \o CSI(<<Ch("2")>>, "J"),
    CSI(<<Ch("1"), Ch(";"), Ch("1")>>, "r") \o CSI(<<Ch("?"), Ch("7")>>, "h"),
    CSI(<<Ch("0")>>, "c") }
AltSizes == { <<2, 2>> }

AltInit == InitWith(AltSizes, Concats(AltChunks, MaxAltChunks))

AltSpec == AltInit /\ [][StreamNext]_vars

\* the grid that is not current
otherScreen(em) == IF em.onAltScreen THEN em.mainScreen ELSE em.altScreen

\* the reader is about to dispatch CSI ? 1049 h or l
At1049 ==
  /\ rpc = "cmd"
  /\ ps.prefix = <<Ch("?")>>
  /\ ps.paramBytes = <<Ch("1"), Ch("0"), Ch("4"), Ch("9")>>

\* a step that keeps on_alt leaves the other grid as it is; the toggle of
\* mode 1049 changes on_alt only
IsolatedStep ==
  /\ e'.onAltScreen = e.onAltScreen => otherScreen(e') = otherScreen(e)
  /\ e'.onAltScreen # e.onAltScreen /\ At1049 => e' = switchScreen(e)

\* the stream CSI ?1049h, "A", CSI ?1049l has been applied
RoundTripDone ==
  /\ Quiescent
  /\ rpc = "read"
  /\ input.stream = Enter1049 \o <<Ch("A")>> \o Leave1049

\* C12: main and alternate grid are isolated: an operation of the parser
\* changes the current grid only, the toggle of mode 1049 changes on_alt
\* only, and after CSI ?1049h, "A", CSI ?1049l the main grid is as New
\* left it
C12_GridsIsolated ==
  /\ [][IsolatedStep]_vars
  /\ [](RoundTripDone =>
         e.mainScreen = NewEmulator(input.cols, input.rows).mainScreen)

\* the round trip is done, the main grid is current again and the "A" is on
\* the alternate grid
C12_RoundTripDone ==
  /\ RoundTripDone
  /\ ~e.onAltScreen
  /\ e.altScreen.chars[0][0] = Ch("A")
  /\ e.mainScreen.chars[0][0] = SP

\* ------------------------------------------------------------- resizing

SizeStreams ==
  { <<Ch("A")>> \o CSI(<<Ch("3"), Ch("1")>>, "m") \o <<Ch("A")>>,
    <<Ch("A"), LF>>,
    CSI(<<Ch("0")>>, "c") }
SizeSizes == { <<2, 2>>, <<3, 2>>, <<2, 3>> }

SizeInit == InitWith(SizeSizes, SizeStreams)

SizeNext ==
  \/ ChildWrite
  \/ ChildRead
  \/ Reader
  \/ \E h \in Hosts : ResizeBegin(h) \/ ResizeDo(h)

SizeSpec == SizeInit /\ [][SizeNext]_vars

\* the host h returns from Resize without an error in this step
Resized(h) ==
  /\ hpc[h] = "rs_do"
  /\ hpc'[h] = "idle"
  /\ hret'[h].err = ""
  /\ panicked' = ""

\* the cells of new inside the old grid are those of old, the others are
\* spaces with the pen of old
Preserved(old, new) ==
  \A y \in 0 .. new.size.Y - 1 : \A x \in 0 .. new.size.X - 1 :
    IF x < old.size.X /\ y < old.size.Y
      THEN /\ new.chars[y][x] = old.chars[y][x]
           /\ new.frontColors[y][x] = old.frontColors[y][x]
           /\ new.backColors[y][x] = old.backColors[y][x]
      ELSE /\ new.chars[y][x] = SP
           /\ new.frontColors[y][x] = old.frontColor
           /\ new.backColors[y][x] = old.backColor

\* C13: set_size(w', h') with positive w', h' keeps rune and colors of every
\* cell in [0, min(W,w')) x [0, min(H,h')) and makes every other cell of the
\* new grid a space with the current pen
C13_ResizePreserves ==
  [][\A h \in Hosts :
       Resized(h) =>
         /\ e'.mainScreen.size = Pos(hop[h].cols, hop[h].rows)
         /\ Preserved(e.mainScreen, e'.mainScreen)
         /\ Preserved(e.altScreen, e'.altScreen)]_vars

\* a grid grown from 2 x 2 to 3 x 3 keeps its two differently colored "A"
\* and its new cells carry the red pen
C13_GrownWithPen ==
  /\ hret["h2"].op = "Resize"
  /\ hret["h2"].err = ""
  /\ e.mainScreen.size = Pos(3, 3)
  /\ input.cols = 2
  /\ e.mainScreen.chars[0][0] = Ch("A")
  /\ e.mainScreen.chars[0][1] = Ch("A")
  /\ e.mainScreen.frontColors[0][0] # e.mainScreen.frontColors[0][1]
  /\ e.mainScreen.frontColors[2][2] = e.mainScreen.frontColors[0][1]
  /\ e.mainScreen.frontColors[2][2] # e.mainScreen.frontColors[1][1]

\* C14: after set_size(w, h) the cursor lies within the new grid, for every
\* cursor position that was valid in the old grid
C14_CursorInNewGrid ==
  [][\A h \in Hosts :
       (Resized(h) /\ InGrid(e.mainScreen) /\ InGrid(e.altScreen))
         => (InGrid(e'.mainScreen) /\ InGrid(e'.altScreen))]_vars

\* C15: resize with a non-positive column or row count returns an error and
\* does not crash: setSize never panics
C15_InvalidSizeRejected == panicked # "Size must be > 0"

\* C16: resize sets both grids to cols x rows, so the two grids have equal
\* dimensions in every reachable state; when setting the PTY window size fails
\* the error is returned and neither grid is changed
ResizeFailed(h) ==
  hpc[h] = "rs_do" /\ hpc'[h] = "idle" /\ hret'[h].err # ""

BothSized(em, cols, rows) ==
  /\ em.mainScreen.size = Pos(cols, rows)
  /\ em.altScreen.size = Pos(cols, rows)

C16_GridsSameSize ==
  /\ [](e.mainScreen.size = e.altScreen.size)
  /\ [][\A h \in Hosts :
         /\ Resized(h) => BothSized(e', hop[h].cols, hop[h].rows)
         /\ ResizeFailed(h) => e' = e]_vars

C16_SetsizeFailed ==
  \E h \in Hosts :
    /\ hret[h].op = "Resize"
    /\ hret[h].err = "bad file descriptor"
    /\ BothSized(e, input.cols, input.rows)

\* ------------------------------------------------ the emulator and its mouse

\* the child turns a mouse mode on
MouseChunks ==
  { CSI(<<Ch("?"), Ch("9")>>, "h"),
    CSI(<<Ch("?"), Ch("1"), Ch("0"), Ch("0"), Ch("0")>>, "h"),
    CSI(<<Ch("?"), Ch("1"), Ch("0"), Ch("0"), Ch("2")>>, "h"),
    CSI(<<Ch("?"), Ch("1"), Ch("0"), Ch("0"), Ch("3")>>, "h") }

NoMouseStream == <<Ch("A"), LF>> \o CSI(<<Ch("0")>>, "c")

\* one mode alone, or a mode and then an encoding
MouseStreams ==
  MouseChunks \cup {NoMouseStream}
    \cup { CSI(<<Ch("?"), Ch("9")>>, "h")
             \o CSI(<<Ch("?"), Ch("1"), Ch("0"), Ch("0"), Ch("5")>>, "h"),
           CSI(<<Ch("?"), Ch("1"), Ch("0"), Ch("0"), Ch("0")>>, "h")
             \o CSI(<<Ch("?"), Ch("1"), Ch("0"), Ch("0"), Ch("5")>>, "h"),
           CSI(<<Ch("?"), Ch("1"), Ch("0"), Ch("0"), Ch("2")>>, "h")
             \o CSI(<<Ch("?"), Ch("1"), Ch("0"), Ch("0"), Ch("6")>>, "h") }

MouseInit == InitWith(SpecSizes, MouseStreams)

MouseHost(h) ==
  \/ SendMouseBegin(h)
  \/ SendMouseLock(h)
  \/ SendMouseEnable(h)
  \/ SendMouseSend(h)
  \/ WritePty(h)

MouseNext ==
  \/ ChildWrite
  \/ ChildRead
  \/ Reader
  \/ \E h \in Hosts : MouseHost(h)

MouseSpec == MouseInit /\ [][MouseNext]_vars

\* the host h is in SendMouse and hands its bytes to the open master
MouseWrites(h) ==
  /\ hpc[h] = "w_write"
  /\ hpc'[h] = "idle"
  /\ hop[h].op = "SendMouse"
  /\ ptyOpen

\* the host h is in SendMouse and runs the filter and the encoding
MouseFilters(h) == hpc[h] = "sm_send" /\ hpc'[h] # "sm_send"

IsRelease(c) == ~c.pressed /\ c.button # -1

\* the three-rune report, with 3 added to the button code on a release
ThreeRunes(c, button) ==
  <<ESC, Ch("["), Ch("M"), 32 + button + (IF IsRelease(c) THEN 3 ELSE 0),
    c.mx + 33, c.my + 33>>

\* the report of the specification for the call c with button code button
Report(c, button) ==
  IF c.mouseEncoding = MESGR
    THEN <<ESC, Ch("["), Ch("<")>> \o Itoa(button) \o <<Ch(";")>>
           \o Itoa(c.mx + 1) \o <<Ch(";")>> \o Itoa(c.my + 1)
           \o <<IF IsRelease(c) THEN Ch("m") ELSE Ch("M")>>
    ELSE ThreeRunes(c, button)

\* C17: an event that passes the mode filter is written to the PTY as
\* ESC [ < button ; x+1 ; y+1 M (m on a release) with SGR encoding, as
\* ESC [ M and the runes button+32 (plus 3 on a release), x+33, y+33 with UTF8
\* encoding and with X10 encoding, and with X10 encoding not at all when
\* x > 222 or y > 222
C17_MouseReport ==
  [][\A h \in Hosts :
       /\ MouseWrites(h) =>
            ptyIn' = Append(ptyIn, Report(hop[h], MouseButton(hop[h].mouseMode,
                                                               hop[h].button)))
       /\ (MouseFilters(h) /\ hop[h].mouseEncoding = MEX10
             /\ (hop[h].mx > 222 \/ hop[h].my > 222)) =>
            (hpc'[h] = "idle" /\ ptyIn' = ptyIn)]_vars

\* C18: in Press mode a release or a motion, and in PressRelease mode a
\* motion, writes nothing to the PTY; a motion is sent with button code 32 in
\* PressReleaseMotion mode and 35 in PressReleaseMotionAll mode; a dropped
\* event returns success and leaves all state unchanged
FilteredOut(c) ==
  \/ c.mouseMode = MMPress /\ (~c.pressed \/ c.button = -1)
  \/ c.mouseMode = MMPressRelease /\ c.button = -1

MotionCode(c) ==
  IF c.mouseMode = MMPressReleaseMove THEN 32 ELSE 35

C18_MouseFilter ==
  [][\A h \in Hosts :
       /\ (MouseFilters(h) /\ FilteredOut(hop[h])) =>
            /\ hpc'[h] = "idle"
            /\ hret'[h] = Return("SendMouse", "", <<>>)
            /\ UNCHANGED <<emuVars, ptyVars, readerVars, mon, procs, exitCalls,
                           panicked>>
       /\ (MouseWrites(h) /\ hop[h].button = -1
             /\ hop[h].mouseMode \in {MMPressReleaseMove, MMPressReleaseMoveAll}) =>
            ptyIn' = Append(ptyIn, Report(hop[h], MotionCode(hop[h])))
       /\ MouseWrites(h) => ~FilteredOut(hop[h])]_vars

\* an event was dropped in Press mode: the child is still writing, so it has
\* read nothing, and nothing waits in the PTY
C18_ReleaseDropped ==
  /\ hret["h1"] = Return("SendMouse", "", <<>>)
  /\ e.viewInts.VIMouseMode = MMPress
  /\ childOut # <<>>
  /\ ptyIn = <<>>

\* C19: a send_mouse that finds MouseMode None sets MouseMode to
\* PressReleaseMotionAll and MouseEncoding to SGR and sends the event in SGR
\* encoding; one that finds another mode changes neither setting
MouseStep(h) ==
  /\ hpc'[h] # hpc[h]
  /\ hop[h].op = "SendMouse" \/ hop'[h].op = "SendMouse"

ModeFound(h) ==
  IF hop[h].op = "SendMouse" THEN hop[h].readMode ELSE hop'[h].readMode

SGRReport(c) ==
  <<ESC, Ch("["), Ch("<")>>
    \o Itoa(IF c.button = -1 THEN 35 ELSE c.button) \o <<Ch(";")>>
    \o Itoa(c.mx + 1) \o <<Ch(";")>> \o Itoa(c.my + 1)
    \o <<IF IsRelease(c) THEN Ch("m") ELSE Ch("M")>>

C19_ImplicitEnable ==
  [][\A h \in Hosts :
       /\ (MouseStep(h) /\ ModeFound(h) # MMNone) => e'.viewInts = e.viewInts
       /\ (MouseStep(h) /\ ModeFound(h) = MMNone /\ hpc'[h] = "sm_send") =>
            /\ e'.viewInts.VIMouseMode = MMPressReleaseMoveAll
            /\ e'.viewInts.VIMouseEncoding = MESGR
       /\ (MouseFilters(h) /\ hop[h].readMode = MMNone) => hpc'[h] = "w_write"
       /\ (MouseWrites(h) /\ hop[h].readMode = MMNone) =>
            ptyIn' = Append(ptyIn, SGRReport(hop[h]))]_vars

\* no mouse mode was ever set by the child, and the press went out in SGR
C19_EnabledAndSent ==
  /\ input.stream = NoMouseStream
  /\ hret["h1"] = Return("SendMouse", "", <<>>)
  /\ e.viewInts.VIMouseMode = MMPressReleaseMoveAll
  /\ e.viewInts.VIMouseEncoding = MESGR
  /\ ptyIn = << <<ESC, Ch("["), Ch("<"), Ch("0"), Ch(";"), Ch("6"), Ch(";"),
                  Ch("1"), Ch("1"), Ch("M")>> >>

\* new is old with the runes b in the cells from the cursor on, in the pen of
\* old, and the cursor behind them in the same row
WrittenInRow(old, new, b) ==
  /\ new.size = old.size
  /\ new.cursorPos = Pos(old.cursorPos.X + Len(b), old.cursorPos.Y)
  /\ \A y \in 0 .. old.size.Y - 1 : \A x \in 0 .. old.size.X - 1 :
       IF y = old.cursorPos.Y /\ x >= old.cursorPos.X /\ x < old.cursorPos.X + Len(b)
         THEN /\ new.chars[y][x] = b[x - old.cursorPos.X + 1]
              /\ new.frontColors[y][x] = old.frontColor
              /\ new.backColors[y][x] = old.backColor
         ELSE /\ new.chars[y][x] = old.chars[y][x]
              /\ new.frontColors[y][x] = old.frontColors[y][x]
              /\ new.backColors[y][x] = old.backColors[y][x]

\* C20: write_runes of n runes with the cursor at (x, y) in the grid and
\* x + n < W writes the cells (x..x+n-1, y) with the runes and the pen, leaves
\* every other cell unchanged and leaves the cursor at (x+n, y), for every
\* cursor row and every ordered pair of margins
C20_WriteRunesInRow ==
  [][(/\ rpc = "write"
      /\ rpc' # "write"
      /\ InGrid(currentScreen(e))
      /\ MarginsOrdered(currentScreen(e))
      /\ currentScreen(e).cursorPos.X + Len(runes) < currentScreen(e).size.X)
       => WrittenInRow(currentScreen(e), currentScreen(e'), runes)]_vars

\* ------------------------------------------- the reader and the cursor's row

MaxWrapChunks == 4

\* auto-wrap on, a rune, the two line controls, a one-row scroll region, a
\* request for the device attributes
WrapChunks ==
  { CSI(<<Ch("?"), Ch("7")>>, "h"),
    <<Ch("A")>>, <<LF>>, <<CR>>,
    CSI(<<Ch("1"), Ch(";"), Ch("1")>>, "r"),
    CSI(<<Ch("0")>>, "c") }

WrapSizes == { <<2, 2>> }

WrapInit == InitWith(WrapSizes, Concats(WrapChunks, MaxWrapChunks))

WrapSpec == WrapInit /\ [][StreamNext]_vars

\* the reader writes its run of printable runes in this step
WritesRun == rpc = "write" /\ rpc' # "write"

\* the cursor row lies in the scroll region
InMargins(s) == s.topMargin <= s.cursorPos.Y /\ s.cursorPos.Y <= s.bottomMargin

\* the rows [top_margin, bottom_margin] one row up, the last one blank in the pen
ScrolledUp(s) ==
  [s EXCEPT
     !.chars = [y \in 0 .. s.size.Y - 1 |->
                  IF y < s.topMargin \/ y > s.bottomMargin THEN @[y]
                  ELSE IF y = s.bottomMargin THEN Row(s.size.X, SP) ELSE @[y + 1]],
     !.frontColors = [y \in 0 .. s.size.Y - 1 |->
                  IF y < s.topMargin \/ y > s.bottomMargin THEN @[y]
                  ELSE IF y = s.bottomMargin THEN Row(s.size.X, s.frontColor)
                  ELSE @[y + 1]],
     !.backColors = [y \in 0 .. s.size.Y - 1 |->
                  IF y < s.topMargin \/ y > s.bottomMargin THEN @[y]
                  ELSE IF y = s.bottomMargin THEN Row(s.size.X, s.backColor)
                  ELSE @[y + 1]]]

\* one rune at the cursor in the pen, then one cell on; past the last column
\* to column 0 of the next row, which at the bottom margin is the scrolled-in
\* row
WrappedOne(s, r) ==
  LET put == [s EXCEPT !.chars[s.cursorPos.Y][s.cursorPos.X] = r,
                       !.frontColors[s.cursorPos.Y][s.cursorPos.X] = s.frontColor,
                       !.backColors[s.cursorPos.Y][s.cursorPos.X] = s.backColor]
  IN  IF s.cursorPos.X + 1 < s.size.X
        THEN [put EXCEPT !.cursorPos.X = @ + 1]
      ELSE IF s.cursorPos.Y = s.bottomMargin
        THEN [ScrolledUp(put) EXCEPT !.cursorPos.X = 0]
      ELSE [put EXCEPT !.cursorPos = Pos(0, s.cursorPos.Y + 1)]

RECURSIVE Wrapped(_, _)
Wrapped(s, b) ==
  IF Len(b) = 0 THEN s ELSE Wrapped(WrappedOne(s, Head(b)), Tail(b))

\* C21: with auto-wrap on, writing N printable runes puts each rune in its own
\* cell and advances the cursor by N cells, a wrap past the bottom margin
\* scrolling the region up by one and going on in the bottom-margin row
C21_WrapAdvances ==
  [][(/\ WritesRun
      /\ currentScreen(e).autoWrap
      /\ InGrid(currentScreen(e))
      /\ MarginsOrdered(currentScreen(e))
      /\ InMargins(currentScreen(e)))
       => currentScreen(e') = Wrapped(currentScreen(e), runes)]_vars

\* the last column holds the last rune of the run that reached it
ClampedRun(old, new, b) ==
  /\ new.cursorPos.Y = old.cursorPos.Y
  /\ new.cursorPos.X = Min(old.cursorPos.X + Len(b), old.size.X - 1)
  /\ \A y \in 0 .. old.size.Y - 1 : \A x \in 0 .. old.size.X - 1 :
       new.chars[y][x] =
         IF y # old.cursorPos.Y \/ x < old.cursorPos.X
              \/ x >= old.cursorPos.X + Len(b) THEN old.chars[y][x]
         ELSE IF x = old.size.X - 1 THEN b[Len(b)]
         ELSE b[x - old.cursorPos.X + 1]

\* C22: with auto-wrap off write_runes changes neither the cursor row nor a
\* cell of another row: at the right edge the cursor stays in column W-1,
\* further runes overwrite that column and the last rune of the run ends there
C22_NoWrapStaysInRow ==
  [][(/\ WritesRun
      /\ ~currentScreen(e).autoWrap
      /\ InGrid(currentScreen(e))
      /\ MarginsOrdered(currentScreen(e)))
       => ClampedRun(currentScreen(e), currentScreen(e'), runes)]_vars

\* the reader runs the case of the control rune b in this step
RunsC0(b) == rpc = "c0" /\ rb = b /\ rpc' # "c0"

\* C28: a carriage return sets the cursor column to 0 and changes nothing
\* else, for every cursor position in the grid, auto-wrap setting and ordered
\* pair of margins, a cursor row outside the scroll region included
C28_CarriageReturn ==
  [][(/\ RunsC0(CR)
      /\ InGrid(currentScreen(e))
      /\ MarginsOrdered(currentScreen(e)))
       => e' = OnScreen(e, [currentScreen(e) EXCEPT !.cursorPos.X = 0])]_vars

\* C29: a line feed on the bottom-margin row scrolls the rows
\* [top_margin, bottom_margin] up by one, the bottom-margin row becoming blank
\* in the pen, and leaves the cursor on that row; a line feed on a row in
\* [top_margin, bottom_margin) only moves the cursor down one row
C29_LineFeed ==
  [][(/\ RunsC0(LF)
      /\ InGrid(currentScreen(e))
      /\ MarginsOrdered(currentScreen(e))
      /\ InMargins(currentScreen(e)))
       => e' = OnScreen(e,
                 IF currentScreen(e).cursorPos.Y = currentScreen(e).bottomMargin
                   THEN ScrolledUp(currentScreen(e))
                   ELSE [currentScreen(e) EXCEPT !.cursorPos.Y = @ + 1])]_vars

\* ------------------------------------------- the reader, scrolls and erasures

MaxSetupChunks == 2

\* what the child writes before the operation: a rune, a line feed, a red
\* background, the scroll region of rows 0 and 1, the one of row 0
SetupChunks ==
  { <<Ch("A")>>, <<LF>>,
    CSI(<<Ch("4"), Ch("1")>>, "m"),
    CSI(<<Ch("1"), Ch(";"), Ch("2")>>, "r"),
    CSI(<<Ch("1"), Ch(";"), Ch("1")>>, "r") }

\* the scrolls
ScrollChunks ==
  { CSI(<<>>, "T"), CSI(<<Ch("2")>>, "T"), CSI(<<Ch("0")>>, "T"),
    CSI(<<>>, "S"), CSI(<<Ch("3")>>, "S"),
    CSI(<<>>, "L"), CSI(<<Ch("2")>>, "L"),
    CSI(<<>>, "M"), CSI(<<Ch("3")>>, "M") }

\* the erasures
EraseChunks ==
  { CSI(<<>>, "K"), CSI(<<Ch("1")>>, "K"), CSI(<<Ch("2")>>, "K"),
    CSI(<<>>, "J"), CSI(<<Ch("1")>>, "J"),
    CSI(<<Ch("5")>>, "X"), CSI(<<>>, "P"), <<DEL>> }

\* a known SGR code and an unknown one, in both orders
SGRChunks ==
  { CSI(<<Ch("3"), Ch("1"), Ch(";"), Ch("9"), Ch("9")>>, "m"),
    CSI(<<Ch("9"), Ch("9"), Ch(";"), Ch("3"), Ch("1")>>, "m") }

\* the request for the device attributes, with its parameter and without
DAChunks == { CSI(<<Ch("0")>>, "c"), CSI(<<>>, "c") }

GridStreams ==
  { p \o c : p \in Concats(SetupChunks, MaxSetupChunks),
             c \in ScrollChunks \cup EraseChunks \cup SGRChunks \cup DAChunks }

GridSizes == { <<2, 3>> }

GridInit == InitWith(GridSizes, GridStreams)

GridSpec == GridInit /\ [][StreamNext]_vars

\* the reader reads the final byte b of an unprefixed CSI sequence in this
\* step and runs its case
RunsCSI(b) ==
  /\ rpc = "cmd"
  /\ rpc' # "cmd"
  /\ ~ReadErr
  /\ ps.st \in {"csi", "csiN"}
  /\ ps.prefix = <<>>
  /\ ReadB = b

\* params[0] of the sequence being read, d when there is none
PendingParam(d) == Param0(ParseParams(ps.paramBytes), d)

\* the reader calls scroll in this step
RunsScroll ==
  RunsCSI(Ch("L")) \/ RunsCSI(Ch("M")) \/ RunsCSI(Ch("S")) \/ RunsCSI(Ch("T"))

\* the arguments of that call
ScrollY1 ==
  IF ReadB = Ch("L") \/ ReadB = Ch("M")
    THEN currentScreen(e).cursorPos.Y ELSE currentScreen(e).topMargin
ScrollY2 == currentScreen(e).bottomMargin
ScrollDy ==
  IF ReadB = Ch("L") \/ ReadB = Ch("T") THEN PendingParam(1) ELSE 0 - PendingParam(1)

SameRow(old, new, y) ==
  /\ new.chars[y] = old.chars[y]
  /\ new.frontColors[y] = old.frontColors[y]
  /\ new.backColors[y] = old.backColors[y]

\* C23: scroll(y1, y2, dy) changes only rows in [y1, y2]: for every dy, also
\* with |dy| greater than the number of rows of the range, the rows above y1
\* and below y2 keep runes and colors and the cursor is unchanged
C23_ScrollInRange ==
  [][(/\ RunsScroll
      /\ InGrid(currentScreen(e))
      /\ MarginsOrdered(currentScreen(e)))
       => /\ currentScreen(e').cursorPos = currentScreen(e).cursorPos
          /\ \A y \in 0 .. currentScreen(e).size.Y - 1 :
               (y < ScrollY1 \/ y > ScrollY2)
                 => SameRow(currentScreen(e), currentScreen(e'), y)]_vars

\* the rows that scroll(y1, y2, dy) blanks on a grid of h rows
BlankedRows(h, y1, y2, dy) ==
  IF y1 > y2 THEN {}
  ELSE IF dy > 0 THEN {y \in 0 .. h - 1 : y >= y1 /\ y < y1 + dy}
  ELSE {y \in 0 .. h - 1 : y >= y2 + dy + 1 /\ y <= y2}

\* row y of new is blank in the pen of old
BlankRow(old, new, y) ==
  /\ new.chars[y] = Row(old.size.X, SP)
  /\ new.frontColors[y] = Row(old.size.X, old.frontColor)
  /\ new.backColors[y] = Row(old.size.X, old.backColor)

\* back is old after scroll(y1, y2, dy) and scroll(y1, y2, -dy)
ScrolledBack(old, back, y1, y2, dy) ==
  /\ back.cursorPos = old.cursorPos
  /\ \A y \in 0 .. old.size.Y - 1 :
       IF y \in BlankedRows(old.size.Y, y1, y2, 0 - dy)
         THEN BlankRow(old, back, y)
       ELSE IF y \in BlankedRows(old.size.Y, y1, y2, dy)
         THEN BlankRow(old, back, y) \/ SameRow(old, back, y)
       ELSE SameRow(old, back, y)

RunsErase ==
  \/ RunsC0(DEL)
  \/ RunsCSI(Ch("K")) /\ PendingParam(0) \in {0, 1, 2}
  \/ RunsCSI(Ch("J")) /\ PendingParam(0) \in {0, 1}
  \/ RunsCSI(Ch("P"))
  \/ RunsCSI(Ch("X"))

\* the region of that call
ErasedRegion ==
  LET s == currentScreen(e)
      cx == s.cursorPos.X
      cy == s.cursorPos.Y
  IN  IF rpc = "c0" THEN Region(cx, cy, cx + 1, cy + 1)
      ELSE IF ReadB = Ch("K")
        THEN Region(IF PendingParam(0) = 0 THEN cx ELSE 0, cy,
                    IF PendingParam(0) = 1 THEN cx ELSE s.size.X, cy + 1)
      ELSE IF ReadB = Ch("J")
        THEN Region(0, IF PendingParam(0) = 0 THEN cy ELSE 0, s.size.X,
                    IF PendingParam(0) = 0 THEN s.size.Y ELSE cy)
      ELSE Region(cx, cy, cx + PendingParam(1), cy + 1)

\* new is old with the cells of the grid that lie in r a space in the pen
ErasedIn(old, new, r) ==
  /\ new.cursorPos = old.cursorPos
  /\ new.size = old.size
  /\ new.frontColor = old.frontColor /\ new.backColor = old.backColor
  /\ new.topMargin = old.topMargin /\ new.bottomMargin = old.bottomMargin
  /\ new.autoWrap = old.autoWrap
  /\ new.fault = ""
  /\ \A y \in 0 .. old.size.Y - 1 : \A x \in 0 .. old.size.X - 1 :
       IF r.X <= x /\ x < r.X2 /\ r.Y <= y /\ y < r.Y2
         THEN /\ new.chars[y][x] = SP
              /\ new.frontColors[y][x] = old.frontColor
              /\ new.backColors[y][x] = old.backColor
         ELSE /\ new.chars[y][x] = old.chars[y][x]
              /\ new.frontColors[y][x] = old.frontColors[y][x]
              /\ new.backColors[y][x] = old.backColors[y][x]

\* C25: erase(region, reason) sets the cells of the region that lie in the
\* grid to a space with the current pen, for a region partly or wholly
\* outside the grid too, and changes no other cell and not the cursor
C25_EraseClamped ==
  [][RunsErase
       => ErasedIn(currentScreen(e), currentScreen(e'), ErasedRegion)]_vars

\* "A", a red background and CSI 5 X: the region reaches past the last
\* column, the "A" is kept and the cell behind it is red
C25_ErasedToEdge ==
  /\ Quiescent
  /\ rpc = "read"
  /\ input.stream = <<Ch("A")>> \o CSI(<<Ch("4"), Ch("1")>>, "m") \o CSI(<<Ch("5")>>, "X")
  /\ e.mainScreen.chars[0][0] = Ch("A")
  /\ e.mainScreen.backColors[0][1] = e.mainScreen.backColor
  /\ e.mainScreen.backColors[0][0] # e.mainScreen.backColor

\* the SGR codes that the case 'm' knows
KnownSGR(p) ==
  \/ p >= 0 /\ p <= 8
  \/ p \in {22, 23, 24, 27, 38, 39, 48, 49}
  \/ p >= 30 /\ p <= 37
  \/ p >= 40 /\ p <= 47
  \/ p >= 90 /\ p <= 97
  \/ p >= 100 /\ p <= 107

\* the sequence being read holds an unknown SGR code
PendingUnknownSGR ==
  \E i \in 1 .. Len(ParseParams(ps.paramBytes)) :
    ~KnownSGR(ParseParams(ps.paramBytes)[i])

\* C26: a CSI ... m sequence with an unknown SGR code leaves the pen
\* (foreground, background, attributes) as it was before the sequence, also
\* when valid codes come before the unknown one
C26_UnknownSGRKeepsPen ==
  [][(RunsCSI(Ch("m")) /\ PendingUnknownSGR)
       => /\ currentScreen(e').frontColor = currentScreen(e).frontColor
          /\ currentScreen(e').backColor = currentScreen(e).backColor]_vars

\* C27: CSI c with no parameter (default 0) or with parameter 0 makes the
\* emulator write the reply ESC [ ? 1 ; 2 c to the PTY, once per request
C27_DeviceAttributes ==
  [][/\ (RunsCSI(Ch("c")) /\ PendingParam(0) = 0)
          => (rpc' = "reply"
                /\ rreply' = <<ESC, Ch("["), Ch("?"), Ch("1"), Ch(";"), Ch("2"), Ch("c")>>)
     /\ (rpc = "reply" /\ rpc' # "reply" /\ ptyOpen)
          => ptyIn' = Append(ptyIn, rreply)]_vars

\* ------------------------------------------ the reader and the mouse settings

MaxModeChunks == 2

PrivateMode(digits, final) == CSI(<<Ch("?")>> \o digits, final)

\* the six mouse modes set and reset, two of them in one sequence, and
\* sequences that are no private mode
ModeChunks ==
  { PrivateMode(d, f) :
      d \in { <<Ch("9")>>,
              <<Ch("1"), Ch("0"), Ch("0"), Ch("0")>>,
              <<Ch("1"), Ch("0"), Ch("0"), Ch("2")>>,
              <<Ch("1"), Ch("0"), Ch("0"), Ch("3")>>,
              <<Ch("1"), Ch("0"), Ch("0"), Ch("5")>>,
              <<Ch("1"), Ch("0"), Ch("0"), Ch("6")>> },
      f \in {"h", "l"} }
    \cup { PrivateMode(<<Ch("1"), Ch("0"), Ch("0"), Ch("0"), Ch(";"),
                         Ch("1"), Ch("0"), Ch("0"), Ch("6")>>, "h"),
           CSI(<<Ch("9")>>, "h"),
           CSI(<<Ch("0")>>, "c"),
           <<Ch("A"), LF>> }

ModeInit == InitWith(SpecSizes, Concats(ModeChunks, MaxModeChunks))

ModeSpec == ModeInit /\ [][StreamNext]_vars

\* the reader reads the final byte h or l of a CSI ? sequence in this step
RunsPrivateMode ==
  /\ rpc = "cmd"
  /\ rpc' # "cmd"
  /\ ~ReadErr
  /\ ps.st = "csiN"
  /\ ps.prefix = <<Ch("?")>>
  /\ ReadB \in {Ch("h"), Ch("l")}

\* the table of the mouse settings, one parameter
MouseTableOne(vi, p, set) ==
  CASE p = 9 -> [vi EXCEPT !.VIMouseMode = IF set THEN MMPress ELSE MMNone]
    [] p = 1000 -> [vi EXCEPT !.VIMouseMode = IF set THEN MMPressRelease ELSE MMNone]
    [] p = 1002 -> [vi EXCEPT !.VIMouseMode = IF set THEN MMPressReleaseMove ELSE MMNone]
    [] p = 1003 -> [vi EXCEPT !.VIMouseMode = IF set THEN MMPressReleaseMoveAll ELSE MMNone]
    [] p = 1005 -> [vi EXCEPT !.VIMouseEncoding = IF set THEN MEUTF8 ELSE MEX10]
    [] p = 1006 -> [vi EXCEPT !.VIMouseEncoding = IF set THEN MESGR ELSE MEX10]
    [] OTHER -> vi

RECURSIVE MouseTable(_, _, _)
MouseTable(vi, params, set) ==
  IF Len(params) = 0 THEN vi
  ELSE MouseTable(MouseTableOne(vi, Head(params), set), Tail(params), set)

\* C30: CSI ?9h, ?1000h, ?1002h, ?1003h set MouseMode to Press, PressRelease,
\* PressReleaseMotion, PressReleaseMotionAll and the 'l' forms set it to None;
\* CSI ?1005h, ?1006h set MouseEncoding to UTF8, SGR and the 'l' forms set it
\* to X10; no other sequence of the child changes the two settings, and both
\* always hold a value of their enumerations
C30_MouseSettingsTable ==
  /\ [](/\ e.viewInts.VIMouseMode \in {MMNone, MMPress, MMPressRelease,
                                       MMPressReleaseMove, MMPressReleaseMoveAll}
        /\ e.viewInts.VIMouseEncoding \in {MEX10, MEUTF8, MESGR})
  /\ [][e'.viewInts =
          IF RunsPrivateMode
            THEN MouseTable(e.viewInts, ParseParams(ps.paramBytes), ReadB = Ch("h"))
            ELSE e.viewInts]_vars

\* after CSI ?1000;1006h and CSI ?1006l the mode is PressRelease and the
\* encoding is X10 again
C30_SetAndReset ==
  /\ Quiescent
  /\ rpc = "read"
  /\ input.stream =
       PrivateMode(<<Ch("1"), Ch("0"), Ch("0"), Ch("0"), Ch(";"),
                     Ch("1"), Ch("0"), Ch("0"), Ch("6")>>, "h")
         \o PrivateMode(<<Ch("1"), Ch("0"), Ch("0"), Ch("6")>>, "l")
  /\ e.viewInts.VIMouseMode = MMPressRelease
  /\ e.viewInts.VIMouseEncoding = MEX10


\* ------------------------------------------------------- rendering a row

MaxRenderChunks == 2

RenderChunks ==
  { <<Ch("A")>>,
    CSI(<<Ch("4"), Ch("1")>>, "m") \o <<Ch("B")>>,
    CSI(<<Ch("3"), Ch("1")>>, "m") \o <<Ch("C")>>,
    <<CR>> \o CSI(<<Ch("0")>>, "c") }
RenderSizes == { <<3, 1>> }

RenderInit == InitWith(RenderSizes, Concats(RenderChunks, MaxRenderChunks))

RenderingNext ==
  \/ ChildWrite
  \/ ChildRead
  \/ Reader
  \/ \E h \in Hosts : GetScreenBegin(h) \/ GetScreenRow(h) \/ GetScreenReturn(h)

\* the read loop and hosts that render
RenderSpec == RenderInit /\ [][RenderingNext]_vars

\* the cell x of row y opens a maximal run of cells of one (fg, bg)
RunStart(s, y, x) ==
  \/ x = 0
  \/ s.frontColors[y][x] # s.frontColors[y][x - 1]
  \/ s.backColors[y][x] # s.backColors[y][x - 1]

RunCount(s, y) == Cardinality({x \in 0 .. s.size.X - 1 : RunStart(s, y, x)})

Prefixes(out) == Cardinality({i \in 1 .. Len(out) : out[i].k = "sgr"})

RECURSIVE RunesBetween(_)
\* the runes of a rendered row, its prefixes taken out
RunesBetween(out) ==
  IF out = <<>> THEN <<>>
  ELSE IF Head(out).k = "rune" THEN <<Head(out).r>> \o RunesBetween(Tail(out))
  ELSE RunesBetween(Tail(out))

\* where the rune of cell x stands in the rendered row
RunePlace(s, y, x) == x + 1 + Cardinality({x2 \in 0 .. x : RunStart(s, y, x2)})

RenderedRow(s, y, out) ==
  /\ Prefixes(out) = RunCount(s, y)
  /\ RunesBetween(out) = [i \in 1 .. s.size.X |-> s.chars[y][i - 1]]
  /\ \A x \in 0 .. s.size.X - 1 :
       /\ RunePlace(s, y, x) <= Len(out)
       /\ out[RunePlace(s, y, x)].k = "rune"
       /\ RunStart(s, y, x) =>
            out[RunePlace(s, y, x) - 1] = ANSIEscape(s.frontColors[y][x], s.backColors[y][x])

\* C31: render_row_ansi(y) emits exactly one SGR prefix per maximal run of
\* cells of one (fg, bg) in row y, each before the first rune of its run and
\* for its pair, so a row of k runs has k prefixes; the runes between the
\* prefixes are the W runes of the row in order. It holds of every row of
\* both grids and of every row a GetScreen in progress has rendered.
C31_OnePrefixPerRun ==
  /\ \A alt \in BOOLEAN : \A y \in 0 .. ScreenOf(alt).size.Y - 1 :
       RenderedRow(ScreenOf(alt), y, renderLineANSI(ScreenOf(alt), y))
  /\ \A h \in Hosts : hpc[h] = "gs_row" =>
       \A y \in 0 .. Len(hop[h].out) - 1 :
         RenderedRow(ScreenOf(hop[h].alt), y, hop[h].out[y + 1])

\* a GetScreen has rendered a row of three cells in two runs
C31_TwoRunsRendered ==
  \E h \in Hosts :
    /\ hpc[h] = "gs_row" /\ Len(hop[h].out) >= 1
    /\ ScreenOf(hop[h].alt).size.X = 3
    /\ Prefixes(hop[h].out[1]) = 2
    /\ RunesBetween(hop[h].out[1]) = <<Ch("B"), Ch("A"), SP>>


\* ---------------------------------------------------- the widget's messages

MaxWidgetMsgs == 3

IDs == {OwnID, OtherID}
Frames == { << <<RuneTok(Ch("A"))>> >>, << <<RuneTok(Ch("B"))>>, <<>> >> }

WidgetMsgs ==
  { [NoMsg EXCEPT !.k = "Key", !.key = key] : key \in {"enter", "A", "shift+tab"} }
  \cup { [NoMsg EXCEPT !.k = k, !.X = 1, !.button = 1] :
           k \in {"MouseClick", "MouseRelease", "MouseMotion"} }
  \cup { [NoMsg EXCEPT !.k = "translatedMouse", !.orig = k, !.EmulatorID = id,
                       !.Y = 1, !.button = 1] :
           k \in {"MouseClick", "MouseRelease", "MouseMotion", "Key"}, id \in IDs }
  \cup { [NoMsg EXCEPT !.k = "WindowSize", !.Width = w, !.Height = 2] : w \in {2, 3} }
  \cup { [NoMsg EXCEPT !.k = "terminalOutput", !.Frame = f, !.EmulatorID = id] :
           f \in Frames, id \in IDs }
  \cup { [NoMsg EXCEPT !.k = "terminalError", !.Err = "read failed", !.EmulatorID = id] :
           id \in IDs }
  \cup { [NoMsg EXCEPT !.k = "startCommand", !.Cmd = 1, !.EmulatorID = id] : id \in IDs }
  \cup { [NoMsg EXCEPT !.k = "processExit", !.EmulatorID = id] : id \in IDs }

\* the host program hands one message to Update
WidgetUpdate ==
  /\ Alive
  /\ widget.n < MaxWidgetMsgs
  /\ \E msg \in WidgetMsgs, startErr \in {"", "exec: start failed"} :
       \E u \in {Update(widget.m, msg, startErr)} :
         widget' = [m |-> u.m, msg |-> msg, cmd |-> u.cmd, n |-> widget.n + 1,
                    starts |-> widget.starts + IF u.started THEN 1 ELSE 0]
  /\ UNCHANGED <<emuVars, ptyVars, readerVars, hostVars, input, panicked>>

\* Focus and Blur
WidgetFocus ==
  /\ Alive
  /\ ~widget.m.focused
  /\ widget' = [widget EXCEPT !.m.focused = TRUE]
  /\ UNCHANGED <<emuVars, ptyVars, readerVars, hostVars, input, panicked>>

WidgetBlur ==
  /\ Alive
  /\ widget.m.focused
  /\ widget' = [widget EXCEPT !.m.focused = FALSE]
  /\ UNCHANGED <<emuVars, ptyVars, readerVars, hostVars, input, panicked>>

\* SetAutoPoll
WidgetSetAutoPoll ==
  /\ Alive
  /\ \E autoPoll \in BOOLEAN :
       /\ autoPoll # widget.m.autoPoll
       /\ widget' = [widget EXCEPT !.m.autoPoll = autoPoll]
  /\ UNCHANGED <<emuVars, ptyVars, readerVars, hostVars, input, panicked>>

WidgetInit == InitWith(SpecSizes, {<<>>})

WidgetNext ==
  \/ WidgetUpdate
  \/ WidgetFocus
  \/ WidgetBlur
  \/ WidgetSetAutoPoll

\* the widget fed by its host program
WidgetSpec == WidgetInit /\ [][WidgetNext]_vars

Addressed == {"terminalOutput", "terminalError", "startCommand", "translatedMouse"}

\* the step hands Update a message addressed to another emulator
ForeignUpdate ==
  /\ widget'.n = widget.n + 1
  /\ widget'.msg.k \in Addressed
  /\ widget'.msg.EmulatorID # widget.m.id

\* C32: a terminal-output, terminal-error, start-command or translated-mouse
\* message whose emulator id differs from that of the widget's emulator
\* changes no widget state (frame, cached view, error, size, focus), starts
\* no command on the emulator and returns no command.
C32_ForeignMessageIgnored ==
  [][ForeignUpdate =>
       /\ widget'.m = widget.m
       /\ widget'.cmd = NoCmd
       /\ widget'.starts = widget.starts
       /\ e' = e]_vars

\* a frame addressed to another emulator came after the widget's own frame
\* and error, and left them in place
C32_ForeignFrameDropped ==
  /\ widget.msg.k = "terminalOutput"
  /\ widget.msg.EmulatorID = OtherID
  /\ widget.m.frame # widget.msg.Frame
  /\ widget.m.frame \in Frames
  /\ widget.m.err = "read failed"
  /\ widget.cmd = NoCmd


\* ------------------------------------------------- scrolling inside a range

\* row y of new is row y0 of old
RowFrom(old, new, y, y0) ==
  /\ new.chars[y] = old.chars[y0]
  /\ new.frontColors[y] = old.frontColors[y0]
  /\ new.backColors[y] = old.backColors[y0]

\* new is old after scroll(y1, y2, dy) with 0 < |dy| <= y2 - y1 + 1
ScrolledBy(old, new, y1, y2, dy) ==
  IF dy > 0
    THEN /\ \A y \in y1 + dy .. y2 : RowFrom(old, new, y, y - dy)
         /\ \A y \in y1 .. y1 + dy - 1 : BlankRow(old, new, y)
    ELSE /\ \A y \in y1 .. y2 + dy : RowFrom(old, new, y, y - dy)
         /\ \A y \in y2 + dy + 1 .. y2 : BlankRow(old, new, y)

\* C33: for 0 < dy <= y2 - y1 + 1, scroll(y1, y2, dy) makes every row y of
\* [y1+dy, y2] the old row y-dy and blanks the rows [y1, y1+dy) with the
\* current pen; scroll(y1, y2, -dy) makes every row y of [y1, y2-dy] the old
\* row y+dy and blanks the rows (y2-dy, y2].
C33_ScrollMovesRows ==
  [][(/\ RunsScroll
      /\ ScrollY1 \in 0 .. currentScreen(e).size.Y - 1
      /\ ScrollY2 \in 0 .. currentScreen(e).size.Y - 1
      /\ ScrollDy # 0
      /\ ScrollDy <= ScrollY2 - ScrollY1 + 1
      /\ 0 - ScrollDy <= ScrollY2 - ScrollY1 + 1)
       => ScrolledBy(currentScreen(e), currentScreen(e'),
                     ScrollY1, ScrollY2, ScrollDy)]_vars

\* a line feed, "A" and CSI S: the "A" of row 1 is on row 0, rows 1 and 2
\* are blank
C33_ScrolledUp ==
  /\ Quiescent
  /\ rpc = "read"
  /\ input.stream = <<LF, Ch("A")>> \o CSI(<<>>, "S")
  /\ e.mainScreen.chars[0][0] = Ch("A")
  /\ e.mainScreen.chars[1][0] = SP
  /\ e.mainScreen.cursorPos = Pos(1, 1)


\* --------------------------------------------------------- erase in display

\* the cell (x, y) comes before, or after, the position c in reading order
CellBefore(x, y, c) == y < c.Y \/ (y = c.Y /\ x < c.X)
CellAfter(x, y, c) == y > c.Y \/ (y = c.Y /\ x > c.X)

SameCell(old, new, x, y) ==
  /\ new.chars[y][x] = old.chars[y][x]
  /\ new.frontColors[y][x] = old.frontColors[y][x]
  /\ new.backColors[y][x] = old.backColors[y][x]

BlankCell(old, new, x, y) ==
  /\ new.chars[y][x] = SP
  /\ new.frontColors[y][x] = old.frontColor
  /\ new.backColors[y][x] = old.backColor

\* new is old after CSI p J
ErasedDisplay(old, new, p) ==
  \A y \in 0 .. old.size.Y - 1 : \A x \in 0 .. old.size.X - 1 :
    CASE p = 0 ->
           /\ new.cursorPos = old.cursorPos
           /\ IF CellBefore(x, y, old.cursorPos)
                THEN SameCell(old, new, x, y) ELSE BlankCell(old, new, x, y)
      [] p = 1 ->
           /\ new.cursorPos = old.cursorPos
           /\ CellAfter(x, y, old.cursorPos) => SameCell(old, new, x, y)
           /\ CellBefore(x, y, old.cursorPos) => BlankCell(old, new, x, y)
      [] p = 2 ->
           /\ new.cursorPos = Pos(0, 0)
           /\ BlankCell(old, new, x, y)
      [] OTHER -> TRUE

\* C34: CSI J with parameter 0 or none blanks the cells from the cursor to
\* the end of the screen and leaves the cells before the cursor (earlier
\* rows, smaller columns of the cursor row) unchanged; with 1 it blanks the
\* cells from the top of the screen up to the cursor and leaves the cells
\* after the cursor unchanged; with 2 it blanks every cell and homes the
\* cursor; 0 and 1 do not move the cursor.
C34_EraseInDisplay ==
  [][(RunsCSI(Ch("J")) /\ InGrid(currentScreen(e)))
       => ErasedDisplay(currentScreen(e), currentScreen(e'), PendingParam(0))]_vars


\* ------------------------------------------------------ sequences dropped

OSCSeq(param, str, term) == <<ESC, Ch("]")>> \o param \o str \o term

\* sequences the emulator does not know
BadChunks ==
  { <<ESC, Ch("7")>>, <<ESC, Ch("Z")>>,
    CSI(<<>>, "Z"), CSI(<<Ch("5")>>, "Z"),
    CSI(<<Ch("5")>>, "h"), CSI(<<>>, "l"), CSI(<<Ch("4"), Ch(";"), Ch("5")>>, "h"),
    OSCSeq(<<Ch("9")>>, <<Ch(";"), Ch("A")>>, <<BEL>>),
    OSCSeq(<<Ch("9")>>, <<>>, <<ST>>),
    OSCSeq(<<Ch("9")>>, <<Ch(";"), Ch("A")>>, <<ESC, Ch("\\")>>) }

DropSetups ==
  { <<>>, <<Ch("A")>>, <<Ch("A"), LF>>, CSI(<<Ch("4"), Ch("1")>>, "m") }

DropStreams ==
  { p \o b \o q : p \in DropSetups, b \in BadChunks,
                  q \in { <<Ch("B")>>, CSI(<<Ch("0")>>, "c") } }

DropInit == InitWith(SpecSizes, DropStreams)

\* the read loop fed unknown sequences
DropSpec == DropInit /\ [][StreamNext]_vars

EscFinals ==
  { Ch("c"), Ch("D"), Ch("M"), Ch("["), Ch("]"), Ch("("), Ch(")"), Ch("*"),
    Ch("+"), Ch("="), Ch(">") }
CSIFinals ==
  { Ch("A"), Ch("B"), Ch("C"), Ch("D"), Ch("G"), Ch("c"), Ch("d"), Ch("f"),
    Ch("H"), Ch("h"), Ch("l"), Ch("m"), Ch("K"), Ch("J"), Ch("L"), Ch("M"),
    Ch("S"), Ch("T"), Ch("P"), Ch("X"), Ch("r"), Ch("n") }
OSCParams == {0, 2, 4, 6, 7, 104, 112}

\* the byte the reader is about to read ends an ESC with an unknown byte
UnknownEsc == ps.st = "esc" /\ ReadB \notin EscFinals

\* ... a CSI with an unknown final byte
UnknownFinal ==
  /\ ps.st \in {"csi", "csiN"} /\ ps.prefix = <<>>
  /\ ~IsParamByte(ReadB)
  /\ ~(ps.st = "csi" /\ (ReadB = Ch("?") \/ ReadB = Ch(">")))
  /\ ReadB \notin CSIFinals

\* ... a CSI h or l of an ANSI mode that is not supported
UnsupportedMode ==
  /\ ps.st \in {"csi", "csiN"} /\ ps.prefix = <<>>
  /\ ReadB \in {Ch("h"), Ch("l")}
  /\ ParseParams(ps.paramBytes) # <<4>>

\* ... an OSC with an unknown parameter
UnknownOSC ==
  /\ Atoi(ps.paramBytes) \notin OSCParams
  /\ \/ ps.st = "osc" /\ ReadB \in {BEL, ST}
     \/ ps.st = "oscS" /\ ReadB \in {BEL, ST}
     \/ /\ ps.st = "oscS" /\ ReadB = Ch("\\")
        /\ Len(ps.param2) > 0 /\ ps.param2[Len(ps.param2)] = ESC

DropsSequence ==
  /\ rpc = "cmd" /\ rpc' # "cmd" /\ ~ReadErr
  /\ rbuf # <<>> \/ ptyOut # <<>>
  /\ UnknownEsc \/ UnknownFinal \/ UnsupportedMode \/ UnknownOSC

OSCTerminators == { <<BEL>>, <<ST>>, <<ESC, Ch("\\")>> }
OSCStrings == { <<Ch("A")>>, <<Ch("A"), Ch("B")>>, <<>> }
OSCSetters == { <<Ch("0")>>, <<Ch("2")>>, <<Ch("6")>>, <<Ch("7")>> }

\* OSC sequences with a string part ("; string") and without one
OSCWithString ==
  { OSCSeq(pa, <<Ch(";")>> \o str, term) :
      pa \in OSCSetters, str \in OSCStrings, term \in OSCTerminators }
OSCWithoutString ==
  { OSCSeq(pa, <<>>, term) : pa \in OSCSetters, term \in OSCTerminators }

OSCStreams ==
  OSCWithString \cup OSCWithoutString
    \cup { <<Ch("A"), LF>> \o CSI(<<Ch("0")>>, "c") }

OSCInit == InitWith(SpecSizes, OSCStreams)

\* the read loop fed one OSC sequence
OSCSpec == OSCInit /\ [][StreamNext]_vars

\* the setting that the OSC parameter names
OSCTarget(pa) ==
  CASE pa = <<Ch("6")>> -> "VSCurrentDirectory"
    [] pa = <<Ch("7")>> -> "VSCurrentFile"
    [] OTHER -> "VSWindowTitle"

\* the emulator after New and one OSC that sets the string str
AfterOSC(pa, str) ==
  [NewEmulator(input.cols, input.rows) EXCEPT !.viewStrings[OSCTarget(pa)] = str]

\* C36: an OSC with parameter 0 or 2 sets WindowTitle, 6 CurrentDirectory
\* and 7 CurrentFile to exactly the string between the ';' and the
\* terminator, for the terminators BEL, ST and ESC \, the terminator being
\* consumed and not part of the string; an OSC without a string part is
\* accepted with each of the three terminators and sets the empty string; no
\* other setting and no cell of the grid changes.
C36_OSCSetsString ==
  (Quiescent /\ rpc = "read")
    => \A pa \in OSCSetters, term \in OSCTerminators :
         /\ \A str \in OSCStrings :
              input.stream = OSCSeq(pa, <<Ch(";")>> \o str, term)
                => e = AfterOSC(pa, str)
         /\ input.stream = OSCSeq(pa, <<>>, term) => e = AfterOSC(pa, <<>>)


\* ------------------------------------------- SendMouse against the reader

\* the step is the implicit enable of the SendMouse of h
EnablesMouse(h) == hpc[h] = "sm_enable" /\ hpc'[h] = "sm_send"

\* the settings are no longer those the SendMouse of h read
SettingsMoved(h) ==
  \/ e.viewInts.VIMouseMode # hop[h].readMode
  \/ e.viewInts.VIMouseEncoding # hop[h].mouseEncoding

\* the step filters and encodes the event of the SendMouse of h
EncodesMouse(h) == hpc[h] = "sm_send" /\ hpc'[h] # "sm_send"

\* C37: the implicit enable of send_mouse is atomic with its test of the
\* mouse mode: a mode or encoding that the reader stored after the call read
\* mode None is not overwritten with PressReleaseMoveAll and SGR, and the
\* event is filtered and encoded with the settings in force at that moment.
C37_EnableAtomic ==
  [][\A h \in Hosts :
       /\ (EnablesMouse(h) /\ SettingsMoved(h)) => e'.viewInts = e.viewInts
       /\ EncodesMouse(h) =>
            /\ hop[h].mouseMode = e.viewInts.VIMouseMode
            /\ hop[h].mouseEncoding = e.viewInts.VIMouseEncoding]_vars


\* ------------------------------------------ the exit flag and later commands

\* the commands whose Start succeeded
Started == {c \in Starts : procs[c].st \in {"running", "exited"}}

\* the command of the most recent successful StartCommand has exited
LastStartedExited ==
  /\ Started # {}
  /\ \A c \in Started : (\A d \in Started : d <= c) => procs[c].st = "exited"

\* the step is an IsProcessExited of h that returns true
ReportsExit(h) ==
  /\ hdone'[h] = hdone[h] + 1
  /\ hret'[h].op = "IsProcessExited"
  /\ hret'[h].val

\* C38: is_process_exited() returns true only if the child started by the
\* most recent successful start_command has exited, however many times
\* start_command was called, and each monitor waits on the child it was
\* started for.
C38_ExitOfLatestChild ==
  [][/\ \A h \in Hosts : ReportsExit(h) => LastStartedExited
     /\ \A m \in Starts : mon'[m].pc = "waiting" => mon'[m].cmd = m]_vars


\* ---------------------------------------------- mode 1049 as set and reset

\* the step dispatches CSI ?1049h (final "h") or CSI ?1049l (final "l")
Runs1049(final) ==
  /\ rpc = "cmd" /\ rpc' # "cmd" /\ ~ReadErr
  /\ rbuf # <<>> \/ ptyOut # <<>>
  /\ ps.st = "csiN" /\ ps.prefix = <<Ch("?")>>
  /\ ParseParams(ps.paramBytes) = <<1049>>
  /\ ReadB = Ch(final)

\* C39: after CSI ?1049h the alternate grid is current and after
\* CSI ?1049l the main grid is current, whichever grid was current before,
\* so the same sequence sent twice has the effect of sending it once.
C39_SetResetIdempotent ==
  [][/\ Runs1049("h") => e'.onAltScreen
     /\ Runs1049("l") => ~e'.onAltScreen]_vars


\* ------------------------------------------------------------- frame rate

\* time.Second, in the unit of frameRate (milliseconds)
Second == 1000

\* Go's integer division, which truncates toward zero, for a >= 0, b # 0
Quot(a, b) == IF b < 0 THEN 0 - (a \div (0 - b)) ELSE a \div b

FrameRates == {-30, -1, 0, 1, 30, 60}

\* SetFrameRate: Lock, first half
SetFrameRateBegin(h) ==
  /\ Alive
  /\ hpc[h] = "idle"
  /\ hdone[h] < MaxOps
  /\ CanAnnounce
  /\ \E fps \in FrameRates :
       hop' = [hop EXCEPT ![h] = [NoCall EXCEPT !.op = "SetFrameRate", !.n = fps]]
  /\ mu' = Announce(h)
  /\ hpc' = [hpc EXCEPT ![h] = "fr_do"]
  /\ UNCHANGED <<e, stopChan, ptyOpen, ttyOpen, ptyVars, readerVars, hdone,
                 hret, mon, procs, exitCalls, input, widget, panicked>>

\* SetFrameRate: Lock, second half, the division, which panics on fps = 0,
\* the assignment, the deferred Unlock
SetFrameRateDo(h) ==
  /\ Alive
  /\ hpc[h] = "fr_do"
  /\ CanAcquire(h)
  /\ mu' = Unlock(h)
  /\ IF hop[h].n = 0
       THEN /\ panicked' = "integer divide by zero"
            /\ UNCHANGED <<e, hpc, hop, hdone, hret>>
       ELSE /\ e' = [e EXCEPT !.frameRate = Quot(Second, hop[h].n)]
            /\ Returns(h, Return("SetFrameRate", "", <<>>))
            /\ panicked' = panicked
  /\ UNCHANGED <<stopChan, ptyOpen, ttyOpen, ptyVars, readerVars, mon, procs,
                 exitCalls, input, widget>>

FrameInit == InitWith(SpecSizes, SpecStreams)

FrameNext ==
  \/ ChildWrite
  \/ ChildRead
  \/ Reader
  \/ \E h \in Hosts : SetFrameRateBegin(h) \/ SetFrameRateDo(h)

\* the read loop and hosts that set the frame rate
FrameSpec == FrameInit /\ [][FrameNext]_vars

\* the step is the body of the SetFrameRate of h
SetsFrameRate(h) == hpc[h] = "fr_do" /\ (hpc'[h] # "fr_do" \/ panicked' # panicked)

\* C40: set_frame_rate(fps) returns normally for every integer fps, 0 and
\* negative values included, releases the lock, and changes only the stored
\* frame interval: both grids, the settings and the PTY stay as they are.
C40_FrameRateAdvisory ==
  [][\A h \in Hosts : SetsFrameRate(h) =>
       /\ panicked' = ""
       /\ hpc'[h] = "idle" /\ hret'[h].op = "SetFrameRate"
       /\ mu' = MuFree
       /\ e' = [e EXCEPT !.frameRate = e'.frameRate]
       /\ UNCHANGED <<stopChan, ptyOpen, ttyOpen, ptyVars>>]_vars

====
